---- MODULE Spec2Model ----
(***************************************************************************)
(* A model of avtool: the file classifier and directory scanner of         *)
(* avtool/scanner.py and the transcode engine of avtool/transcode.py.      *)
(*                                                                         *)
(* Strings are sequences of one-character strings, so that upper(), ord()  *)
(* and string comparison are computed and not assumed.                     *)
(***************************************************************************)
EXTENDS Integers, Sequences, FiniteSets, TLC

\* ------------------------------------------------------------------------
\* The state
\* ------------------------------------------------------------------------

\* one AVFilesMatcher instance and its callers' calls of match() and get()
VARIABLES
    fm,         \* the AVFilesMatcher object
    fm_calls,   \* the (name, isfile) of every match() call so far, in order
    fm_raised,  \* the last match() call raised TypeError
    fm_got      \* [called, entries]: what the last get() call returned

fmVars == <<fm, fm_calls, fm_raised, fm_got>>

\* the file system the scanner reads
VARIABLES
    fs          \* the set of nodes [path, isdir]

\* one run of AVScanner.find_iter
VARIABLES
    scan_pc,        \* "setup", "start", "run", "done" or "raised"
    scan_stack,     \* the active calls of g, innermost last:
                    \* [dir, phase, todo, fm], phase "enter", "enter2" or "loop"
    scan_out,       \* the entries yielded so far, in order
    scan_visited,   \* the directories g was called on, in order
    scan_matched    \* the directories a directory matcher returned an entry for

scanVars == <<fs, scan_pc, scan_stack, scan_out, scan_visited, scan_matched>>

\* one invocation of transcode_movies
VARIABLES
    tc_pc,            \* where the invocation is; "returned" and "raised" end it
    tc_input_files,   \* input_files
    tc_input_codecs,  \* input_codecs, as far as probed
    tc_audio_nt,      \* audio_need_transcode
    tc_video_nt,      \* video_need_transcode
    tc_disk,          \* the content of output_file ("out"), temp_output_file
                      \* ("tmp") and temp_output_file2 ("tmp2"): "absent",
                      \* "orig", "new" or "partial"
    tc_entry,         \* the content of output_file when the invocation began
    tc_exc,           \* the exception in flight, "none" without one
    tc_playlist,      \* the lines written to list.txt
    tc_runs,          \* the executor's runs so far: [pipeline, inputs]
    tc_failed         \* the operations that have raised

tcVars == <<tc_pc, tc_input_files, tc_input_codecs, tc_audio_nt, tc_video_nt,
            tc_disk, tc_entry, tc_exc, tc_playlist, tc_runs, tc_failed>>

\* two invocations of transcode_movies running at once in one directory
VARIABLES
    cc_pc,       \* where each invocation is
    cc_out,      \* each invocation's output_file
    cc_tmp,      \* each invocation's temp_output_file; output_file until
                 \* the name is generated
    cc_tmp2,     \* each invocation's temp_output_file2; likewise
    cc_entry,    \* the content of each output_file before the invocations
    cc_exc,      \* each invocation's exception in flight, "none" without one
    cc_failed,   \* the operations of each invocation that have raised
    cc_disk,     \* the directory: the content [by, what] under every file name
    cc_uuid,     \* the number of uuid4 values drawn so far
    cc_touched   \* [by, name]: the names each invocation created, renamed or
                 \* removed

ccVars == <<cc_pc, cc_out, cc_tmp, cc_tmp2, cc_entry, cc_exc, cc_failed,
            cc_disk, cc_uuid, cc_touched>>

\* the pooled batch of fetch_assets
VARIABLES
    pool_n,        \* len(entries); the entries are 1..pool_n
    pool_todo,     \* the entries no worker has taken yet
    pool_worker,   \* each worker thread: [pc, entry, retry, msg, got]
    pool_counter,  \* atomic_counter.value
    pool_decs,     \* how often add_get(-1) was called for each entry
    pool_printed,  \* the completion messages printed, in print order:
                   \* [shown, entry, msg]
    pool_tries     \* for each worker, how the turns of the while loop of its
                   \* running call of fetch_asset_for ended, in order:
                   \* "finished", "skipped" or "raised"

poolVars == <<pool_n, pool_todo, pool_worker, pool_counter, pool_decs,
              pool_printed, pool_tries>>

\* one AssetsDBMaker under any calls of add()
VARIABLES
    mk_pc,        \* "idle" between calls, "loop" inside the while loop of add
    mk_name,      \* the argument name of the running call
    mk_idx,       \* idx of the running call
    mk_meta,      \* the keys of meta_dict
    mk_returned,  \* the names returned by the calls so far, in order
    mk_members    \* the names given to zip_file.writestr so far, in order

mkVars == <<mk_pc, mk_name, mk_idx, mk_meta, mk_returned, mk_members>>

\* the transcode command for one entry: try_execute(do_transcode)
VARIABLES
    cmd_pc,               \* "start", "engine" (inside transcode_movies),
                          \* "delete" (the loop over input_files), "done"
    cmd_simulate,         \* the option --simulate
    cmd_no_delete_input,  \* the option --no-delete-input
    cmd_i,                \* the inputs the delete loop has passed
    cmd_removed,          \* the paths given to os.remove that were removed
    cmd_trace             \* whether try_execute printed an error trace

cmdVars == <<cmd_pc, cmd_simulate, cmd_no_delete_input, cmd_i, cmd_removed,
             cmd_trace>>

vars == <<fmVars, scanVars, tcVars, ccVars, poolVars, mkVars, cmdVars>>

\* what the actions of one part leave alone: the variables of the others
fmOthers == <<scanVars, tcVars, ccVars, poolVars, mkVars, cmdVars>>
scanOthers == <<fmVars, tcVars, ccVars, poolVars, mkVars, cmdVars>>
tcOthers == <<fmVars, scanVars, ccVars, poolVars, mkVars, cmdVars>>
ccOthers == <<fmVars, scanVars, tcVars, poolVars, mkVars, cmdVars>>
poolOthers == <<fmVars, scanVars, tcVars, ccVars, mkVars, cmdVars>>
mkOthers == <<fmVars, scanVars, tcVars, ccVars, poolVars, cmdVars>>
cmdOthers == <<fmVars, scanVars, ccVars, poolVars, mkVars>>

\* ------------------------------------------------------------------------
\* Characters and strings
\* ------------------------------------------------------------------------

LowerChars == <<"a","b","c","d","e","f","g","h","i","j","k","l","m",
                "n","o","p","q","r","s","t","u","v","w","x","y","z">>

UpperChars == <<"A","B","C","D","E","F","G","H","I","J","K","L","M",
                "N","O","P","Q","R","S","T","U","V","W","X","Y","Z">>

DigitChars == <<"0","1","2","3","4","5","6","7","8","9">>

OtherChars == [c \in {" ","!","(",")","-",".","[","]","_"} |->
                 CASE c = " " -> 32 [] c = "!" -> 33 [] c = "(" -> 40
                   [] c = ")" -> 41 [] c = "-" -> 45 [] c = "." -> 46
                   [] c = "[" -> 91 [] c = "]" -> 93 [] c = "_" -> 95]

IndexIn(seq, c) == CHOOSE i \in 1..Len(seq) : seq[i] = c

IsLower(c) == \E i \in 1..Len(LowerChars) : LowerChars[i] = c
IsUpper(c) == \E i \in 1..Len(UpperChars) : UpperChars[i] = c
IsDigit(c) == \E i \in 1..Len(DigitChars) : DigitChars[i] = c
IsLetter(c) == IsLower(c) \/ IsUpper(c)
IsAlnum(c) == IsLetter(c) \/ IsDigit(c)
IsSpace(c) == c = " "
IsAny(c) == TRUE

\* ord() of one character
Ord(c) ==
    IF IsDigit(c) THEN 47 + IndexIn(DigitChars, c)
    ELSE IF IsUpper(c) THEN 64 + IndexIn(UpperChars, c)
    ELSE IF IsLower(c) THEN 96 + IndexIn(LowerChars, c)
    ELSE OtherChars[c]

UpperChar(c) == IF IsLower(c) THEN UpperChars[IndexIn(LowerChars, c)] ELSE c
LowerChar(c) == IF IsUpper(c) THEN LowerChars[IndexIn(UpperChars, c)] ELSE c

\* str.upper() and str.lower()
Upper(s) == [i \in 1..Len(s) |-> UpperChar(s[i])]
Lower(s) == [i \in 1..Len(s) |-> LowerChar(s[i])]

\* s[i:j] with 0-based boundaries
Slice(s, i, j) == SubSeq(s, i + 1, j)

\* Python's comparison of two strings: s < t
StrLess(s, t) ==
    \E k \in 0..Len(s) :
        /\ k <= Len(t)
        /\ \A i \in 1..k : s[i] = t[i]
        /\ \/ k = Len(s) /\ k < Len(t)
           \/ k < Len(s) /\ k < Len(t) /\ Ord(s[k + 1]) < Ord(t[k + 1])

\* str.endswith
EndsWith(s, t) ==
    Len(t) <= Len(s) /\ Slice(s, Len(s) - Len(t), Len(s)) = t

\* every character of s[i:j] satisfies P, and there are at least lo of them
Run(s, i, j, P(_), lo) ==
    /\ i + lo <= j
    /\ j <= Len(s)
    /\ \A x \in (i + 1)..j : P(s[x])

\* s[i:] starts with t, compared case-insensitively (re.I)
AtI(s, i, t) ==
    i + Len(t) <= Len(s) /\ Lower(Slice(s, i, i + Len(t))) = t

\* ------------------------------------------------------------------------
\* scanner.py: the extension lists and the patterns
\* ------------------------------------------------------------------------

MOVIE_EXTENSIONS == << <<"m","p","4">>, <<"w","m","v">>, <<"m","k","v">>,
                       <<"a","v","i">>, <<"r","m">>, <<"r","m","v","b">> >>

ASSET_EXTENSIONS == << <<"j","s","o","n">>, <<"y","m","l">>, <<"n","f","o">>,
                       <<"j","p","g">>, <<"j","p","e","g">>, <<"p","n","g">>,
                       <<"z","i","p">> >>

DOWNLOADING_EXTENSIONS == << <<"u","t","!">>, <<"p","a","r","t">> >>

\* (?P<id>(?:[A-Z0-9]+)-(?:[0-9]+)) matches s[a:b]; the dash is at k + 1
IdAt(s, a, b) ==
    \E k \in (a + 1)..(b - 2) :
        /\ Run(s, a, k, IsAlnum, 1)
        /\ s[k + 1] = "-"
        /\ Run(s, k + 1, b, IsDigit, 1)

\* the optional prefix (?:HD-|\[[a-z0-9]+\.[a-z]+\])? : <<alternative, end>>
FilePrefixes(s) ==
    (IF AtI(s, 0, <<"h","d","-">>) THEN {<<1, 3>>} ELSE {})
    \cup
    {<<2, a>> : a \in {a \in 1..Len(s) :
        /\ s[1] = "["
        /\ s[a] = "]"
        /\ \E k \in 2..(a - 2) :
              /\ Run(s, 1, k, IsAlnum, 1)
              /\ s[k + 1] = "."
              /\ Run(s, k + 1, a - 1, IsLetter, 1)}}
    \cup
    {<<3, 0>>}

\* the optional order group at b : <<alternative, end, captured string>>
\*   1: \s*\((?P<order1>\d+)\)   2: -(?P<order2>\d+)
\*   3: \((?P<order3>[a-z])\)    4: no order group
FileOrders(s, b) ==
    {<<1, xc[2], Slice(s, xc[1] + 1, xc[2] - 1)>> :
        xc \in {xc \in (b..Len(s)) \X (b..Len(s)) :
            /\ Run(s, b, xc[1], IsSpace, 0)
            /\ xc[1] + 3 <= xc[2]
            /\ s[xc[1] + 1] = "("
            /\ Run(s, xc[1] + 1, xc[2] - 1, IsDigit, 1)
            /\ s[xc[2]] = ")"}}
    \cup
    {<<2, c, Slice(s, b + 1, c)>> : c \in {c \in (b + 2)..Len(s) :
        /\ s[b + 1] = "-"
        /\ Run(s, b + 1, c, IsDigit, 1)}}
    \cup
    (IF /\ b + 3 <= Len(s)
        /\ s[b + 1] = "("
        /\ IsLetter(s[b + 2])
        /\ s[b + 3] = ")"
     THEN {<<3, b + 3, Slice(s, b + 1, b + 2)>>} ELSE {})
    \cup
    {<<4, b, <<>> >>}

\* the optional (?:\s+.*)? at c : its end
FileRests(s, c) ==
    {d \in (c + 1)..Len(s) : IsSpace(s[c + 1])} \cup {c}

\* \.(?P<ext>mp4|wmv|mkv|avi|rm|rmvb?) at d : <<alternative, end>>
FileExts(s, d) ==
    {<<x, d + 1 + Len(MOVIE_EXTENSIONS[x])>> : x \in {x \in 1..Len(MOVIE_EXTENSIONS) :
        d < Len(s) /\ s[d + 1] = "." /\ AtI(s, d + 1, MOVIE_EXTENSIONS[x])}}
    \cup
    (IF d < Len(s) /\ s[d + 1] = "." /\ AtI(s, d + 1, <<"r","m","v">>)
     THEN {<<Len(MOVIE_EXTENSIONS), d + 4>>} ELSE {})

\* (?:\.(?P<download_ext>ut!|part))?$ at e : the captured string, <<>> for None
FileDownloads(s, e) ==
    {Slice(s, e + 1, Len(s)) : x \in {x \in 1..Len(DOWNLOADING_EXTENSIONS) :
        /\ e < Len(s)
        /\ s[e + 1] = "."
        /\ AtI(s, e + 1, DOWNLOADING_EXTENSIONS[x])
        /\ e + 1 + Len(DOWNLOADING_EXTENSIONS[x]) = Len(s)}}
    \cup
    (IF e = Len(s) THEN {<<>>} ELSE {})

\* every way FILE_PATTERNS[0] matches the whole of s; key orders the ways as
\* the backtracking matcher tries them (alternatives left to right, greedy
\* repetitions longest first)
FileParses(s) ==
    UNION {UNION {UNION {UNION {UNION {
        {[key |-> <<p[1], Len(s) - b, o[1], Len(s) - o[2], Len(s) - d,
                    x[1], Len(s) - x[2]>>,
          id |-> Slice(s, p[2], b),
          order1 |-> IF o[1] = 1 THEN o[3] ELSE <<>>,
          order2 |-> IF o[1] = 2 THEN o[3] ELSE <<>>,
          order3 |-> IF o[1] = 3 THEN o[3] ELSE <<>>,
          download_ext |-> dl] : dl \in FileDownloads(s, x[2])}
        : x \in FileExts(s, d)}
        : d \in FileRests(s, o[2])}
        : o \in FileOrders(s, b)}
        : b \in {b \in (p[2] + 3)..Len(s) : IdAt(s, p[2], b)}}
        : p \in FilePrefixes(s)}

\* k1 comes before k2, or is k2
KeyLeq(k1, k2) ==
    \/ k1 = k2
    \/ \E i \in 1..Len(k1) :
          /\ \A j \in 1..(i - 1) : k1[j] = k2[j]
          /\ k1[i] < k2[i]

\* pattern.match(name): the set holding the match object, empty for None
FilePatternMatch(s) ==
    LET parses == FileParses(s)
    IN  {m \in parses : \A q \in parses : KeyLeq(m.key, q.key)}

\* DefaultAVDirectoryMatcher.DIR_PATTERN.match(s): the set holding group id
DefaultDirPatternMatch(s) ==
    LET ends(a) == {b \in (a + 3)..Len(s) :
                      /\ IdAt(s, a, b)
                      /\ b = Len(s) \/ IsSpace(s[b + 1])}
        hd == IF AtI(s, 0, <<"h","d","-">>) THEN ends(3) ELSE {}
    IN  IF hd # {}
        THEN {Slice(s, 3, CHOOSE b \in hd : \A c \in hd : c <= b)}
        ELSE {Slice(s, 0, b) : b \in {b \in ends(0) : \A c \in ends(0) : c <= b}}

\* EverAverDirectoryMatcher.DIR_PATTERN.match(s): the set holding group id
EverAverDirPatternMatch(s) ==
    {Slice(s, k, Len(s) - 1) : k \in {k \in 1..(Len(s) - 1) :
        /\ s[k] = "["
        /\ s[Len(s)] = "]"
        /\ IdAt(s, k, Len(s) - 1)}}

\* ------------------------------------------------------------------------
\* The names the model draws its files and directories from
\* ------------------------------------------------------------------------

\* directory entries for one classifier: names as os.listdir gives them
\* (distinct), each a file or a directory
DirEntries ==
    {[name |-> <<"A","-","1",".","m","p","4">>, isfile |-> TRUE],
     [name |-> <<"A","-","1",".","a","v","i">>, isfile |-> TRUE],
     [name |-> <<"a","-","1","-","2",".","m","p","4">>, isfile |-> TRUE],
     [name |-> <<"A","-","1","(","3",")",".","m","p","4">>, isfile |-> TRUE],
     [name |-> <<"A","-","1",".","m","p","4",".","p","a","r","t">>, isfile |-> TRUE],
     [name |-> <<"B","-","2","(","a",")",".","m","k","v">>, isfile |-> TRUE],
     [name |-> <<"B","-","2",".","r","m","v","b",".","u","t","!">>, isfile |-> FALSE],
     [name |-> <<"A","-","1","(","1","0",")",".","m","p","4">>, isfile |-> TRUE],
     [name |-> <<"A","-","1","-","1","2",".","m","p","4">>, isfile |-> TRUE],
     [name |-> <<"n","o","t","e","s",".","t","x","t">>, isfile |-> TRUE]}

\* directory names: one no matcher takes, two for DefaultAVDirectoryMatcher,
\* one for EverAverDirectoryMatcher
NamePlain == <<"m">>
NameDefault == <<"A","-","1">>
NameDefaultHd == <<"h","d","-","a","-","1">>
NameEverAver == <<"x","[","b","-","2","]">>

\* the file sets of the scanned directories
FilesMovieAsset == {<<"A","-","1",".","m","p","4">>, <<"A","-","1",".","j","p","g">>}
FilesMovieOther == {<<"a","-","1",".","m","p","4">>, <<"n","o","t","e","s",".","t","x","t">>}
FilesEverAver == {<<"x","[","b","-","2","]",".","m","k","v">>, <<"B","-","2",".","a","v","i">>}
FilesEverAverTwo == {<<"x","[","b","-","2","]",".","m","k","v">>,
                     <<"y","x","[","B","-","2","]",".","m","p","4">>}
FilesPoisoned == {<<"A","-","1",".","m","p","4">>,
                  <<"A","-","1",".","m","p","4",".","p","a","r","t">>}
FilesBadOrder == {<<"A","-","1","(","1","0",")",".","m","p","4">>}

KnownNames ==
    {e.name : e \in DirEntries}
    \cup {NamePlain, NameDefault, NameDefaultHd, NameEverAver}
    \cup FilesMovieAsset \cup FilesMovieOther \cup FilesEverAver
    \cup FilesEverAverTwo \cup FilesPoisoned \cup FilesBadOrder

\* the three patterns applied to every name of the model, computed once
FilePatternTable == [s \in KnownNames |-> FilePatternMatch(s)]
DefaultDirPatternTable == [s \in KnownNames |-> DefaultDirPatternMatch(s)]
EverAverDirPatternTable == [s \in KnownNames |-> EverAverDirPatternMatch(s)]

\* ------------------------------------------------------------------------
\* scanner.py: AVFilesMatcher (the file classifier)
\* ------------------------------------------------------------------------

\* None, for an optional string
None == <<>>

\* files_to_process is a defaultdict(list): a sequence of items in insertion
\* order, each [id, forbidden, list]; forbidden is "the value is FORBIDDEN"
KeyIndex(ftp, m_id) ==
    IF \E i \in 1..Len(ftp) : ftp[i].id = m_id
    THEN CHOOSE i \in 1..Len(ftp) : ftp[i].id = m_id
    ELSE 0

\* SetForbidden storing an empty list in place of FORBIDDEN
SetEmptyList(ftp, m_id) ==
    LET item == [id |-> m_id, forbidden |-> FALSE, list |-> <<>>]
    IN  IF KeyIndex(ftp, m_id) = 0
        THEN Append(ftp, item)
        ELSE [ftp EXCEPT ![KeyIndex(ftp, m_id)] = item]

\* self.files_to_process[m_id] = FORBIDDEN
SetForbidden(ftp, m_id) ==
    LET item == [id |-> m_id, forbidden |-> TRUE, list |-> <<>>]
    IN  IF KeyIndex(ftp, m_id) = 0
        THEN Append(ftp, item)
        ELSE [ftp EXCEPT ![KeyIndex(ftp, m_id)] = item]

\* AppendFile without the FORBIDDEN test: a later file reopens the identifier
AppendFileReopening(ftp, m_id, m_order, name) ==
    LET i == KeyIndex(ftp, m_id)
        item == [id |-> m_id, forbidden |-> FALSE, list |-> << <<m_order, name>> >>]
    IN  IF i = 0 THEN Append(ftp, item)
        ELSE IF ftp[i].forbidden THEN [ftp EXCEPT ![i] = item]
        ELSE [ftp EXCEPT ![i].list = Append(@, <<m_order, name>>)]

\* if self.files_to_process[m_id] is not FORBIDDEN: ....append((m_order, name))
AppendFile(ftp, m_id, m_order, name) ==
    LET i == KeyIndex(ftp, m_id)
    IN  IF i = 0
        THEN Append(ftp, [id |-> m_id, forbidden |-> FALSE,
                          list |-> << <<m_order, name>> >>])
        ELSE IF ftp[i].forbidden
        THEN ftp
        ELSE [ftp EXCEPT ![i].list = Append(@, <<m_order, name>>)]

\* AVFilesMatcher(parent_dir, movie_id)
NewFilesMatcher(parent_dir, movie_id) ==
    [parent_dir |-> parent_dir,
     movie_id |-> IF movie_id = None THEN None ELSE Upper(movie_id),
     files_to_process |-> <<>>]

\* the order groups of a match that ord() cannot take (not one character)
BadOrders(m) ==
    {g \in {m.order1, m.order2, m.order3} : g # None /\ Len(g) # 1}

\* OrderOf reading the first order group alone
OrderOfFirstGroup(m) ==
    IF m.order1 = None THEN 0 ELSE Ord(m.order1[1]) - Ord("0")

\* m_order after the loop over order1..order3
OrderOf(m) ==
    LET last == IF m.order3 # None THEN m.order3
                ELSE IF m.order2 # None THEN m.order2
                ELSE m.order1
    IN  IF last = None THEN 0 ELSE Ord(last[1]) - Ord("0")

\* self.match(name): [self, raised], raised when ord() raises TypeError
FilesMatcherMatch(self, name, isfile) ==
    LET found == FilePatternTable[name]
        m == CHOOSE x \in found : TRUE
        m_id == Upper(m.id)
        same == [self |-> self, raised |-> FALSE]
    IN  IF ~isfile \/ found = {}
        THEN same
        ELSE IF m.download_ext # None
        THEN [self |-> [self EXCEPT !.files_to_process = SetForbidden(@, m_id)],
              raised |-> FALSE]
        ELSE IF BadOrders(m) # {}
        THEN [self |-> self, raised |-> TRUE]
        ELSE IF self.movie_id = None \/ m_id = self.movie_id
        THEN [self |-> [self EXCEPT !.files_to_process =
                                        AppendFile(@, m_id, OrderOf(m), name)],
              raised |-> FALSE]
        ELSE same

\* PairLess on the order alone, as m_list.sort(key=order) would compare
PairLessByOrder(p, q) == p[1] < q[1]

\* (order, name) tuples: p < q
PairLess(p, q) ==
    p[1] < q[1] \/ (p[1] = q[1] /\ StrLess(p[2], q[2]))

RECURSIVE InsertSorted(_, _)
InsertSorted(sorted, p) ==
    IF sorted = <<>> THEN <<p>>
    ELSE IF PairLess(p, sorted[Len(sorted)])
    THEN Append(InsertSorted(SubSeq(sorted, 1, Len(sorted) - 1), p),
                sorted[Len(sorted)])
    ELSE Append(sorted, p)

\* m_list.sort()
RECURSIVE ListSort(_)
ListSort(list) ==
    IF list = <<>> THEN <<>>
    ELSE InsertSorted(ListSort(SubSeq(list, 1, Len(list) - 1)), list[Len(list)])

\* AVEntry(...)
AVEntry(movie_id, parent_dir, own_dir, movie_files, asset_none, asset_files) ==
    [movie_id |-> movie_id, parent_dir |-> parent_dir, own_dir |-> own_dir,
     movie_files |-> movie_files,
     asset_files |-> [none |-> asset_none, files |-> asset_files]]

\* the files_to_process left by get(): every open list sorted in place
FilesMatcherSorted(self) ==
    [self EXCEPT !.files_to_process =
        [i \in 1..Len(@) |-> [@[i] EXCEPT !.list = ListSort(@)]]]

\* [m_name for _, m_name in m_list]
NamesOf(m_list) == [k \in 1..Len(m_list) |-> m_list[k][2]]

RECURSIVE EntriesOf(_, _)
EntriesOf(self, n) ==
    IF n = 0 THEN <<>>
    ELSE LET item == self.files_to_process[n]
         IN  IF item.forbidden THEN EntriesOf(self, n - 1)
             ELSE Append(EntriesOf(self, n - 1),
                         AVEntry(Upper(item.id), self.parent_dir, FALSE,
                                 CHOOSE names \in {NamesOf(m_list) :
                                     m_list \in {ListSort(item.list)}} : TRUE,
                                 TRUE, <<>>))

\* self.get(): the list returned
FilesMatcherGet(self) == EntriesOf(self, Len(self.files_to_process))

\* ------------------------------------------------------------------------
\* One AVFilesMatcher instance and its callers' calls of match() and get()
\* ------------------------------------------------------------------------


\* the most match() calls on one instance
MaxCalls == 3

\* the movie_id argument of the constructor
ScopeIds == {None, <<"a","-","1">>}

ParentDir == <<"d">>

FmIdle ==
    /\ fm = NewFilesMatcher(ParentDir, None)
    /\ fm_calls = <<>>
    /\ fm_raised = FALSE
    /\ fm_got = [called |-> FALSE, entries |-> <<>>]

FmInit ==
    /\ \E movie_id \in ScopeIds : fm = NewFilesMatcher(ParentDir, movie_id)
    /\ fm_calls = <<>>
    /\ fm_raised = FALSE
    /\ fm_got = [called |-> FALSE, entries |-> <<>>]

\* a call of match(name)
FmMatch ==
    /\ Len(fm_calls) < MaxCalls
    /\ \E e \in DirEntries :
          /\ \A i \in 1..Len(fm_calls) : fm_calls[i].name # e.name
          /\ LET r == FilesMatcherMatch(fm, e.name, e.isfile)
             IN  /\ fm' = r.self
                 /\ fm_raised' = r.raised
          /\ fm_calls' = Append(fm_calls, e)
    /\ UNCHANGED fm_got
    /\ UNCHANGED fmOthers

\* a call of get()
FmGet ==
    /\ fm_got' = [called |-> TRUE, entries |-> FilesMatcherGet(fm)]
    /\ fm' = FilesMatcherSorted(fm)
    /\ UNCHANGED <<fm_calls, fm_raised>>
    /\ UNCHANGED fmOthers

FmNext == FmMatch \/ FmGet

\* ------------------------------------------------------------------------
\* The file system the scanner reads: a tree without symbolic links whose
\* names are case-sensitive.  A path is the sequence of its names.
\* ------------------------------------------------------------------------


\* os.path.join(parent_dir, name)
Join(parent_dir, name) == Append(parent_dir, name)

\* os.path.split(path)[-1]
BaseName(path) == path[Len(path)]

\* os.path.isdir(path), os.path.isfile(path)
IsDir(path) == [path |-> path, isdir |-> TRUE] \in fs
IsFile(path) == [path |-> path, isdir |-> FALSE] \in fs

\* the names in directory path
Children(path) ==
    {BaseName(n.path) : n \in {n \in fs :
        Len(n.path) = Len(path) + 1 /\ SubSeq(n.path, 1, Len(path)) = path}}

\* the lists os.listdir(path) can return: the names in arbitrary order
ListDir(path) ==
    {l \in [1..Cardinality(Children(path)) -> Children(path)] :
        \A i, j \in DOMAIN l : i # j => l[i] # l[j]}

\* os.path.splitext(name): the index where the extension starts,
\* Len(name) + 1 when there is none
ExtStart(name) ==
    LET dots == {k \in 1..Len(name) :
                    name[k] = "." /\ \E i \in 1..(k - 1) : name[i] # "."}
    IN  IF dots = {} THEN Len(name) + 1
        ELSE CHOOSE k \in dots : \A d \in dots : d <= k

\* ------------------------------------------------------------------------
\* scanner.py: the directory matchers
\* ------------------------------------------------------------------------

\* AVDirectoryMatcher.collect_assets(parent_dir, base_name)
RECURSIVE CollectAssetsUpTo(_, _, _)
CollectAssetsUpTo(parent_dir, base_name, n) ==
    IF n = 0 THEN <<>>
    ELSE LET name == base_name \o <<".">> \o ASSET_EXTENSIONS[n]
             rest == CollectAssetsUpTo(parent_dir, base_name, n - 1)
         IN  IF IsFile(Join(parent_dir, name)) THEN Append(rest, name) ELSE rest

CollectAssets(parent_dir, base_name) ==
    CollectAssetsUpTo(parent_dir, base_name, Len(ASSET_EXTENSIONS))

\* one turn of the loop of AVFilesMatcher.match_all(), before being what the
\* turns before it left, [self, raised]: an exception ends the loop
MatchAllTurn(before, name) ==
    IF before.raised THEN before
    ELSE FilesMatcherMatch(before.self, name,
                           IsFile(Join(before.self.parent_dir, name)))

\* match_all() over the first n names of the listing os.listdir returned
RECURSIVE MatchAllUpTo(_, _, _)
MatchAllUpTo(self, listing, n) ==
    IF n = 0 THEN [self |-> self, raised |-> FALSE]
    ELSE CHOOSE r \in {MatchAllTurn(before, listing[n]) :
                          before \in {MatchAllUpTo(self, listing, n - 1)}} : TRUE

FilesMatcherMatchAll(self, listing) == MatchAllUpTo(self, listing, Len(listing))

NoEntry == [raised |-> FALSE, found |-> FALSE, entry |-> <<>>]

\* DefaultAVDirectoryMatcher.match from files_matcher.match_all() on:
\* all is what match_all left, entries what files_matcher.get() returns
DefaultMatchEntry(path, movie_id, all, entries) ==
    LET base_name == BaseName(path)
        assets == CollectAssets(path, base_name) \o
                  (IF Upper(base_name) # movie_id
                   THEN CollectAssets(path, movie_id) ELSE <<>>)
    IN  IF all.raised THEN [raised |-> TRUE, found |-> FALSE, entry |-> <<>>]
        ELSE IF entries = <<>> THEN NoEntry
        ELSE [raised |-> FALSE, found |-> TRUE,
              entry |-> AVEntry(entries[1].movie_id, entries[1].parent_dir,
                                TRUE, entries[1].movie_files,
                                assets = <<>>, assets)]

\* DefaultAVDirectoryMatcher.match(path), listing being what os.listdir(path)
\* returns inside match_all: [raised, found, entry]
DefaultMatch(path, listing) ==
    LET found == DefaultDirPatternTable[BaseName(path)]
        movie_id == Upper(CHOOSE x \in found : TRUE)
    IN  IF found = {} THEN NoEntry
        ELSE CHOOSE r \in
                {DefaultMatchEntry(path, movie_id, all, FilesMatcherGet(all.self)) :
                    all \in {FilesMatcherMatchAll(NewFilesMatcher(path, movie_id),
                                                  listing)}} : TRUE

\* the test EverAverDirectoryMatcher.match applies to a child name
EverAverIsMovie(base_name, name) ==
    LET left == Slice(name, 0, ExtStart(name) - 1)
        right == Slice(name, ExtStart(name) - 1, Len(name))
    IN  /\ EndsWith(Upper(left), Upper(base_name))
        /\ \E x \in 1..Len(MOVIE_EXTENSIONS) :
              Slice(Lower(right), 1, Len(right)) = MOVIE_EXTENSIONS[x]

\* EverAverDirectoryMatcher.match(path), listing being what os.listdir(path)
\* returns: [raised, found, entry]
EverAverMatch(path, listing) ==
    LET base_name == BaseName(path)
        found == EverAverDirPatternTable[base_name]
        hits == {i \in 1..Len(listing) : EverAverIsMovie(base_name, listing[i])}
        first == CHOOSE i \in hits : \A j \in hits : i <= j
    IN  IF found = {} \/ hits = {} THEN NoEntry
        ELSE [raised |-> FALSE, found |-> TRUE,
              entry |-> AVEntry(CHOOSE x \in found : TRUE,
                                path, TRUE, <<listing[first]>>,
                                FALSE, CollectAssets(path, base_name))]

\* ------------------------------------------------------------------------
\* scanner.py: AVScanner.find_iter, the generator g unrolled on a stack
\* ------------------------------------------------------------------------


DirNode(path) == [path |-> path, isdir |-> TRUE]
FileNodes(path, names) == {[path |-> Join(path, n), isdir |-> FALSE] : n \in names}

\* the trees a scan is run on: a root, at most one directory in it and at
\* most one directory in that one, each directory with one of a few file sets
RootPaths == {<<NamePlain>>, <<NameDefault>>}
MidNames == {NamePlain, NameDefault, NameDefaultHd, NameEverAver}
LeafNames == {NameDefault, NameEverAver}
RootFiles == {{}, FilesMovieAsset, FilesMovieOther, FilesEverAver, FilesBadOrder}
MidFiles == {{}, FilesMovieAsset, FilesMovieOther, FilesEverAver,
             FilesEverAverTwo, FilesPoisoned}
LeafFiles == {{}, FilesMovieAsset, FilesEverAver}

\* a directory at path with the files named, and nothing when ~present
DirTree(present, path, names) ==
    IF present THEN {DirNode(path)} \cup FileNodes(path, names) ELSE {}

Frame(dir, phase, todo, files_matcher) ==
    [dir |-> dir, phase |-> phase, todo |-> todo, fm |-> files_matcher]

EnterFrame(dir) == Frame(dir, "enter", <<>>, NewFilesMatcher(dir, None))

Top == scan_stack[Len(scan_stack)]
Pop(stack) == SubSeq(stack, 1, Len(stack) - 1)
SetTop(stack, frame) == [stack EXCEPT ![Len(stack)] = frame]
PcAfter(stack) == IF stack = <<>> THEN "done" ELSE "run"

ScanIdle ==
    /\ fs = {}
    /\ scan_pc = "done"
    /\ scan_stack = <<>>
    /\ scan_out = <<>>
    /\ scan_visited = <<>>
    /\ scan_matched = {}

ScanInit ==
    /\ fs = {}
    /\ scan_pc = "setup"
    /\ scan_stack = <<>>
    /\ scan_out = <<>>
    /\ scan_visited = <<>>
    /\ scan_matched = {}

\* before the scan: the tree under root_dir comes to be what it is
FsCreate ==
    /\ scan_pc = "setup"
    /\ \E root \in RootPaths, rootIsDir \in BOOLEAN,
          hasMid \in BOOLEAN, hasLeaf \in BOOLEAN,
          mid \in MidNames, leaf \in LeafNames,
          rf \in RootFiles, mf \in MidFiles, lf \in LeafFiles :
          fs' = IF rootIsDir
                THEN DirTree(TRUE, root, rf)
                     \cup DirTree(hasMid, Join(root, mid), mf)
                     \cup DirTree(hasMid /\ hasLeaf, Join(Join(root, mid), leaf), lf)
                ELSE {[path |-> root, isdir |-> FALSE]}
    /\ scan_pc' = "start"
    /\ UNCHANGED <<scan_stack, scan_out, scan_visited, scan_matched>>
    /\ UNCHANGED scanOthers

\* the root_dir argument: the one path of length 1
RootDir == CHOOSE p \in {n.path : n \in fs} : Len(p) = 1

\* find_iter: if os.path.isdir(root_dir): yield from g(root_dir)
ScanStart ==
    /\ scan_pc = "start"
    /\ IF IsDir(RootDir)
       THEN /\ scan_stack' = <<EnterFrame(RootDir)>>
            /\ scan_visited' = <<RootDir>>
            /\ scan_pc' = "run"
       ELSE /\ scan_pc' = "done"
            /\ UNCHANGED <<scan_stack, scan_visited>>
    /\ UNCHANGED <<fs, scan_out, scan_matched>>
    /\ UNCHANGED scanOthers

\* ScanMatchDefault without the break: the entry is yielded and the loop over
\* the matchers goes on, into the else branch
ScanMatchDefaultNoBreak ==
    /\ scan_pc = "run" /\ Top.phase = "enter"
    /\ \E listing \in ListDir(Top.dir) :
          LET r == DefaultMatch(Top.dir, listing)
          IN  /\ r.found
              /\ scan_out' = Append(scan_out, r.entry)
    /\ scan_matched' = scan_matched \cup {Top.dir}
    /\ scan_stack' = SetTop(scan_stack, [Top EXCEPT !.phase = "enter2"])
    /\ UNCHANGED <<fs, scan_pc, scan_visited>>
    /\ UNCHANGED scanOthers

\* g: dir_matchers[0].match(parent_dir) returns an entry: yield it, break
ScanMatchDefault ==
    /\ scan_pc = "run" /\ Top.phase = "enter"
    /\ \E listing \in ListDir(Top.dir) :
          LET r == DefaultMatch(Top.dir, listing)
          IN  /\ r.found
              /\ scan_out' = Append(scan_out, r.entry)
    /\ scan_matched' = scan_matched \cup {Top.dir}
    /\ scan_stack' = Pop(scan_stack)
    /\ scan_pc' = PcAfter(scan_stack')
    /\ UNCHANGED <<fs, scan_visited>>
    /\ UNCHANGED scanOthers

\* g: dir_matchers[0].match(parent_dir) raises out of match_all; the
\* exception leaves the generator
ScanMatchRaise ==
    /\ scan_pc = "run" /\ Top.phase = "enter"
    /\ \E listing \in ListDir(Top.dir) : DefaultMatch(Top.dir, listing).raised
    /\ scan_pc' = "raised"
    /\ UNCHANGED <<fs, scan_stack, scan_out, scan_visited, scan_matched>>
    /\ UNCHANGED scanOthers

\* g: dir_matchers[0].match(parent_dir) returns None: try the next matcher
ScanNoDefault ==
    /\ scan_pc = "run" /\ Top.phase = "enter"
    /\ \E listing \in ListDir(Top.dir) :
          LET r == DefaultMatch(Top.dir, listing)
          IN  ~r.found /\ ~r.raised
    /\ scan_stack' = SetTop(scan_stack, [Top EXCEPT !.phase = "enter2"])
    /\ UNCHANGED <<fs, scan_pc, scan_out, scan_visited, scan_matched>>
    /\ UNCHANGED scanOthers

\* g: dir_matchers[1].match(parent_dir) returns an entry: yield it, break
ScanMatchEverAver ==
    /\ scan_pc = "run" /\ Top.phase = "enter2"
    /\ \E listing \in ListDir(Top.dir) :
          LET r == EverAverMatch(Top.dir, listing)
          IN  /\ r.found
              /\ scan_out' = Append(scan_out, r.entry)
    /\ scan_matched' = scan_matched \cup {Top.dir}
    /\ scan_stack' = Pop(scan_stack)
    /\ scan_pc' = PcAfter(scan_stack')
    /\ UNCHANGED <<fs, scan_visited>>
    /\ UNCHANGED scanOthers

\* g: no matcher returned an entry: the else branch lists the directory
ScanDescend ==
    /\ scan_pc = "run" /\ Top.phase = "enter2"
    /\ \E listing \in ListDir(Top.dir) : ~EverAverMatch(Top.dir, listing).found
    /\ \E listing \in ListDir(Top.dir) :
          scan_stack' = SetTop(scan_stack,
              Frame(Top.dir, "loop", listing, NewFilesMatcher(Top.dir, None)))
    /\ UNCHANGED <<fs, scan_pc, scan_out, scan_visited, scan_matched>>
    /\ UNCHANGED scanOthers

\* g: the next name is a directory: yield from g(path)
ScanChildDir ==
    /\ scan_pc = "run" /\ Top.phase = "loop" /\ Top.todo # <<>>
    /\ LET path == Join(Top.dir, Head(Top.todo))
       IN  /\ IsDir(path)
           /\ scan_stack' = Append(SetTop(scan_stack, [Top EXCEPT !.todo = Tail(@)]),
                                   EnterFrame(path))
           /\ scan_visited' = Append(scan_visited, path)
    /\ UNCHANGED <<fs, scan_pc, scan_out, scan_matched>>
    /\ UNCHANGED scanOthers

\* ScanChildFile with the yield of files_matcher.get() inside the loop
ScanChildFileYielding ==
    /\ scan_pc = "run" /\ Top.phase = "loop" /\ Top.todo # <<>>
    /\ LET name == Head(Top.todo)
           path == Join(Top.dir, name)
           r == FilesMatcherMatch(Top.fm, name, IsFile(path))
       IN  /\ ~IsDir(path)
           /\ IF r.raised
              THEN /\ scan_pc' = "raised"
                   /\ UNCHANGED <<scan_stack, scan_out>>
              ELSE /\ scan_stack' = SetTop(scan_stack,
                          [Top EXCEPT !.todo = Tail(@), !.fm = r.self])
                   /\ scan_out' = scan_out \o FilesMatcherGet(r.self)
                   /\ UNCHANGED scan_pc
    /\ UNCHANGED <<fs, scan_visited, scan_matched>>
    /\ UNCHANGED scanOthers

\* g: the next name is not a directory: files_matcher.match(name)
ScanChildFile ==
    /\ scan_pc = "run" /\ Top.phase = "loop" /\ Top.todo # <<>>
    /\ LET name == Head(Top.todo)
           path == Join(Top.dir, name)
           r == FilesMatcherMatch(Top.fm, name, IsFile(path))
       IN  /\ ~IsDir(path)
           /\ IF r.raised
              THEN /\ scan_pc' = "raised"
                   /\ UNCHANGED scan_stack
              ELSE /\ scan_stack' = SetTop(scan_stack,
                          [Top EXCEPT !.todo = Tail(@), !.fm = r.self])
                   /\ UNCHANGED scan_pc
    /\ UNCHANGED <<fs, scan_out, scan_visited, scan_matched>>
    /\ UNCHANGED scanOthers

\* g: the listing is exhausted: yield from files_matcher.get()
ScanLeave ==
    /\ scan_pc = "run" /\ Top.phase = "loop" /\ Top.todo = <<>>
    /\ scan_out' = scan_out \o FilesMatcherGet(Top.fm)
    /\ scan_stack' = Pop(scan_stack)
    /\ scan_pc' = PcAfter(scan_stack')
    /\ UNCHANGED <<fs, scan_visited, scan_matched>>
    /\ UNCHANGED scanOthers

ScanNext ==
    \/ FsCreate
    \/ ScanStart
    \/ ScanMatchDefault
    \/ ScanMatchRaise
    \/ ScanNoDefault
    \/ ScanMatchEverAver
    \/ ScanDescend
    \/ ScanChildDir
    \/ ScanChildFile
    \/ ScanLeave

\* ------------------------------------------------------------------------
\* transcode.py: paths, codecs and the codec decision
\* ------------------------------------------------------------------------

\* a path is the sequence of its components; the first is "/" when absolute
Cwd == <<"/", "w">>
OutputFile == <<"out.mp4">>
InputPaths == {<<"a.mp4">>, <<"b.mp4">>, <<"out.mp4">>, <<".", "out.mp4">>}

\* the most input files of one invocation
MaxInputs == 3

\* os.path.abspath(path), for paths without ".." and links
Abspath(path) ==
    LET full == IF path[1] = "/" THEN path ELSE Cwd \o path
    IN  SelectSeq(full, LAMBDA c : c # ".")

\* a stream's codec attributes: a dict from some of codec_name, profile, pix_fmt
VideoH264High == [codec_name |-> "h264", profile |-> "High"]
VideoH264Main == [codec_name |-> "h264", profile |-> "Main"]
VideoHevc == [codec_name |-> "hevc"]
VideoMpeg4 == [codec_name |-> "mpeg4", profile |-> "High"]
VideoUnnamed == [pix_fmt |-> "yuv420p"]
AudioAac == [codec_name |-> "aac"]
AudioMp3 == [codec_name |-> "mp3"]

\* MovieCodec(video, audio)
MovieCodec(video, audio) == [video |-> video, audio |-> audio]

\* what get_movie_codec can return for a file
Codecs ==
    {MovieCodec(VideoH264High, AudioAac), MovieCodec(VideoH264High, AudioMp3),
     MovieCodec(VideoH264Main, AudioAac), MovieCodec(VideoHevc, AudioAac),
     MovieCodec(VideoMpeg4, AudioAac), MovieCodec(VideoUnnamed, AudioAac)}

\* MovieCodec.is_desired_video_codec
IsDesiredVideoCodec(codec) ==
    /\ "codec_name" \in DOMAIN codec.video
    /\ codec.video["codec_name"] \in {"h264", "hevc"}

\* all(a.audio == b.audio for a, b in zip(input_codecs[:-1], input_codecs[1:]))
AllAdjacentAudioEqual(input_codecs) ==
    \A i \in 1..(Len(input_codecs) - 1) :
        input_codecs[i].audio = input_codecs[i + 1].audio

\* AllAdjacentVideoEqual on the first pair alone
FirstPairVideoEqual(input_codecs) ==
    Len(input_codecs) < 2 \/ input_codecs[1].video = input_codecs[2].video

\* all(a.video == b.video for a, b in zip(input_codecs[:-1], input_codecs[1:]))
AllAdjacentVideoEqual(input_codecs) ==
    \A i \in 1..(Len(input_codecs) - 1) :
        input_codecs[i].video = input_codecs[i + 1].video

\* audio_need_transcode after the two tests
AudioNeedTranscode(input_codecs) ==
    ~(Len(input_codecs) = 1 \/ AllAdjacentAudioEqual(input_codecs))

\* video_need_transcode after the two tests
VideoNeedTranscode(input_codecs) ==
    ~(/\ Len(input_codecs) = 1 \/ AllAdjacentVideoEqual(input_codecs)
      /\ IsDesiredVideoCodec(input_codecs[1]))

\* PipelineOf with the copy branch taken on the video test alone
PipelineOfVideoOnly(input_files, output_file, audio_need_transcode, video_need_transcode) ==
    IF ~video_need_transcode
    THEN IF Len(input_files) > 1 THEN "concat-copy"
         ELSE IF Abspath(input_files[1]) # Abspath(output_file) THEN "direct-copy"
         ELSE "no-op"
    ELSE "re-encode"

\* PipelineOf comparing the paths as written, without os.path.abspath
PipelineOfRawPaths(input_files, output_file, audio_need_transcode, video_need_transcode) ==
    IF ~audio_need_transcode /\ ~video_need_transcode
    THEN IF Len(input_files) > 1 THEN "concat-copy"
         ELSE IF input_files[1] # output_file THEN "direct-copy"
         ELSE "no-op"
    ELSE "re-encode"

\* the pipeline the with block builds: "no-op", "direct-copy", "concat-copy"
\* or "re-encode"
PipelineOf(input_files, output_file, audio_need_transcode, video_need_transcode) ==
    IF ~audio_need_transcode /\ ~video_need_transcode
    THEN IF Len(input_files) > 1 THEN "concat-copy"
         ELSE IF Abspath(input_files[1]) # Abspath(output_file) THEN "direct-copy"
         ELSE "no-op"
    ELSE "re-encode"

\* ------------------------------------------------------------------------
\* transcode.py: one invocation of transcode_movies(input_files, OutputFile)
\* ------------------------------------------------------------------------


\* the sequences over S of length at most n
SeqsUpTo(S, n) == UNION {[1..k -> S] : k \in 0..n}

Disk(out, tmp, tmp2) == [out |-> out, tmp |-> tmp, tmp2 |-> tmp2]

TcIdle ==
    /\ tc_pc = "returned"
    /\ tc_input_files = <<>>
    /\ tc_input_codecs = <<>>
    /\ tc_audio_nt = TRUE
    /\ tc_video_nt = TRUE
    /\ tc_disk = Disk("absent", "absent", "absent")
    /\ tc_entry = "absent"
    /\ tc_exc = "none"
    /\ tc_playlist = <<>>
    /\ tc_runs = <<>>
    /\ tc_failed = {}

TcInit ==
    /\ tc_pc = "check"
    /\ tc_input_files \in SeqsUpTo(InputPaths, MaxInputs)
    /\ tc_input_codecs = <<>>
    /\ tc_audio_nt = TRUE
    /\ tc_video_nt = TRUE
    /\ \E out \in {"absent", "orig"} :
          /\ tc_disk = Disk(out, "absent", "absent")
          /\ tc_entry = out
    /\ tc_exc = "none"
    /\ tc_playlist = <<>>
    /\ tc_runs = <<>>
    /\ tc_failed = {}

\* an operation raises: the exception is in flight and control goes to `to`
Raise(op, exc, to) ==
    /\ tc_exc' = exc
    /\ tc_failed' = tc_failed \cup {op}
    /\ tc_pc' = to

\* TcCheck without the test: an empty list reaches input_codecs[0] in the try
\* block, which raises IndexError
TcCheckOmitted ==
    /\ tc_pc = "check"
    /\ IF tc_input_files = <<>>
       THEN Raise("decide", "IndexError", "finally")
       ELSE tc_pc' = "probe" /\ UNCHANGED <<tc_exc, tc_failed>>
    /\ UNCHANGED <<tc_input_files, tc_input_codecs, tc_audio_nt, tc_video_nt,
                   tc_disk, tc_entry, tc_playlist, tc_runs>>
    /\ UNCHANGED tcOthers

\* if not input_files: raise ValueError
TcCheck ==
    /\ tc_pc = "check"
    /\ IF tc_input_files = <<>>
       THEN Raise("check", "ValueError", "raised")
       ELSE tc_pc' = "probe" /\ UNCHANGED <<tc_exc, tc_failed>>
    /\ UNCHANGED <<tc_input_files, tc_input_codecs, tc_audio_nt, tc_video_nt,
                   tc_disk, tc_entry, tc_playlist, tc_runs>>
    /\ UNCHANGED tcOthers

\* get_movie_codec(input_file) for the next input file, before the try block:
\* a file probed before gives the same codec; a missing file cannot be probed
TcProbe ==
    /\ tc_pc = "probe"
    /\ LET i == Len(tc_input_codecs) + 1
           file == Abspath(tc_input_files[i])
           seen == {j \in 1..(i - 1) : Abspath(tc_input_files[j]) = file}
       IN  \/ /\ file = Abspath(OutputFile) => tc_disk.out # "absent"
              /\ \E codec \in Codecs :
                    /\ \A j \in seen : tc_input_codecs[j] = codec
                    /\ tc_input_codecs' = Append(tc_input_codecs, codec)
              /\ tc_pc' = IF i = Len(tc_input_files) THEN "decide" ELSE "probe"
              /\ UNCHANGED <<tc_exc, tc_failed>>
           \/ /\ Raise("probe", "ffmpeg.Error", "raised")
              /\ UNCHANGED tc_input_codecs
    /\ UNCHANGED <<tc_input_files, tc_audio_nt, tc_video_nt, tc_disk, tc_entry,
                   tc_playlist, tc_runs>>
    /\ UNCHANGED tcOthers

\* the temporary names are generated and, in the try block, the output codecs
\* determined
TcDecide ==
    /\ tc_pc = "decide"
    /\ tc_audio_nt' = AudioNeedTranscode(tc_input_codecs)
    /\ tc_video_nt' = VideoNeedTranscode(tc_input_codecs)
    /\ tc_pc' = "pipeline"
    /\ UNCHANGED <<tc_input_files, tc_input_codecs, tc_disk, tc_entry, tc_exc,
                   tc_playlist, tc_runs, tc_failed>>
    /\ UNCHANGED tcOthers

Pipeline == PipelineOf(tc_input_files, OutputFile, tc_audio_nt, tc_video_nt)

\* the output file is the input file: return
TcNoop ==
    /\ tc_pc = "pipeline"
    /\ Pipeline = "no-op"
    /\ tc_pc' = "finally"
    /\ UNCHANGED <<tc_input_files, tc_input_codecs, tc_audio_nt, tc_video_nt,
                   tc_disk, tc_entry, tc_exc, tc_playlist, tc_runs, tc_failed>>
    /\ UNCHANGED tcOthers

\* list.txt is written for the concat demuxer, one line per input file
TcPlaylist ==
    /\ tc_pc = "pipeline"
    /\ Pipeline = "concat-copy"
    /\ \/ /\ tc_playlist' = [i \in 1..Len(tc_input_files) |->
                                Abspath(tc_input_files[i])]
          /\ tc_pc' = "run"
          /\ UNCHANGED <<tc_exc, tc_failed>>
       \/ /\ Raise("playlist", "OSError", "finally")
          /\ UNCHANGED tc_playlist
    /\ UNCHANGED <<tc_input_files, tc_input_codecs, tc_audio_nt, tc_video_nt,
                   tc_disk, tc_entry, tc_runs>>
    /\ UNCHANGED tcOthers

\* ....output(temp_output_file, ...).run(): the executor writes
\* temp_output_file; when it fails the file is absent or partial
TcRun ==
    /\ \/ tc_pc = "run"
       \/ tc_pc = "pipeline" /\ Pipeline \in {"direct-copy", "re-encode"}
    /\ tc_runs' = Append(tc_runs,
          [pipeline |-> Pipeline,
           inputs |-> IF Pipeline = "concat-copy" THEN tc_playlist
                      ELSE tc_input_files])
    /\ \/ /\ tc_disk' = [tc_disk EXCEPT !.tmp = "new"]
          /\ tc_pc' = "commit"
          /\ UNCHANGED <<tc_exc, tc_failed>>
       \/ /\ \E left \in {"absent", "partial"} :
                tc_disk' = [tc_disk EXCEPT !.tmp = left]
          /\ Raise("encode", "ffmpeg.Error", "finally")
    /\ UNCHANGED <<tc_input_files, tc_input_codecs, tc_audio_nt, tc_video_nt,
                   tc_entry, tc_playlist>>
    /\ UNCHANGED tcOthers

\* os.rename(src, dst) done
Renamed(disk, src, dst) == [disk EXCEPT ![dst] = disk[src], ![src] = "absent"]

\* os.remove(name) done
Removed(disk, name) == [disk EXCEPT ![name] = "absent"]

\* output_file exists: os.rename(output_file, temp_output_file2)
TcBackup ==
    /\ tc_pc = "commit"
    /\ tc_disk.out # "absent"
    /\ \/ /\ tc_disk' = Renamed(tc_disk, "out", "tmp2")
          /\ tc_pc' = "replace"
          /\ UNCHANGED <<tc_exc, tc_failed>>
       \/ /\ Raise("backup", "OSError", "finally")
          /\ UNCHANGED tc_disk
    /\ UNCHANGED <<tc_input_files, tc_input_codecs, tc_audio_nt, tc_video_nt,
                   tc_entry, tc_playlist, tc_runs>>
    /\ UNCHANGED tcOthers

\* try: os.rename(temp_output_file, output_file)
TcReplace ==
    /\ tc_pc = "replace"
    /\ \/ /\ tc_disk' = Renamed(tc_disk, "tmp", "out")
          /\ tc_pc' = "unbackup"
          /\ UNCHANGED <<tc_exc, tc_failed>>
       \/ /\ Raise("replace", "OSError", "restore")
          /\ UNCHANGED tc_disk
    /\ UNCHANGED <<tc_input_files, tc_input_codecs, tc_audio_nt, tc_video_nt,
                   tc_entry, tc_playlist, tc_runs>>
    /\ UNCHANGED tcOthers

\* TcRestore without the restoring rename: the exception is only re-raised
TcRestoreOmitted ==
    /\ tc_pc = "restore"
    /\ tc_pc' = "finally"
    /\ UNCHANGED <<tc_input_files, tc_input_codecs, tc_audio_nt, tc_video_nt,
                   tc_disk, tc_entry, tc_exc, tc_playlist, tc_runs, tc_failed>>
    /\ UNCHANGED tcOthers

\* except: os.rename(temp_output_file2, output_file); raise
TcRestore ==
    /\ tc_pc = "restore"
    /\ \/ /\ tc_disk' = Renamed(tc_disk, "tmp2", "out")
          /\ tc_pc' = "finally"
          /\ UNCHANGED <<tc_exc, tc_failed>>
       \/ /\ Raise("restore", "OSError", "finally")
          /\ UNCHANGED tc_disk
    /\ UNCHANGED <<tc_input_files, tc_input_codecs, tc_audio_nt, tc_video_nt,
                   tc_entry, tc_playlist, tc_runs>>
    /\ UNCHANGED tcOthers

\* else: os.remove(temp_output_file2)
TcRemoveBackup ==
    /\ tc_pc = "unbackup"
    /\ \/ /\ tc_disk' = Removed(tc_disk, "tmp2")
          /\ tc_pc' = "finally"
          /\ UNCHANGED <<tc_exc, tc_failed>>
       \/ /\ Raise("unbackup", "OSError", "finally")
          /\ UNCHANGED tc_disk
    /\ UNCHANGED <<tc_input_files, tc_input_codecs, tc_audio_nt, tc_video_nt,
                   tc_entry, tc_playlist, tc_runs>>
    /\ UNCHANGED tcOthers

\* output_file does not exist: os.rename(temp_output_file, output_file)
TcRenameNew ==
    /\ tc_pc = "commit"
    /\ tc_disk.out = "absent"
    /\ \/ /\ tc_disk' = Renamed(tc_disk, "tmp", "out")
          /\ tc_pc' = "finally"
          /\ UNCHANGED <<tc_exc, tc_failed>>
       \/ /\ Raise("rename", "OSError", "finally")
          /\ UNCHANGED tc_disk
    /\ UNCHANGED <<tc_input_files, tc_input_codecs, tc_audio_nt, tc_video_nt,
                   tc_entry, tc_playlist, tc_runs>>
    /\ UNCHANGED tcOthers

\* finally: if os.path.exists(temp_output_file): os.remove(temp_output_file);
\* then the function returns, or the exception in flight propagates.  The
\* operations of the try block can raise; this removal is taken to succeed.
TcFinally ==
    /\ tc_pc = "finally"
    /\ tc_disk' = IF tc_disk.tmp = "absent" THEN tc_disk
                  ELSE Removed(tc_disk, "tmp")
    /\ tc_pc' = IF tc_exc = "none" THEN "returned" ELSE "raised"
    /\ UNCHANGED <<tc_input_files, tc_input_codecs, tc_audio_nt, tc_video_nt,
                   tc_entry, tc_exc, tc_playlist, tc_runs, tc_failed>>
    /\ UNCHANGED tcOthers

TcNext ==
    \/ TcCheck
    \/ TcProbe
    \/ TcDecide
    \/ TcNoop
    \/ TcPlaylist
    \/ TcRun
    \/ TcBackup
    \/ TcReplace
    \/ TcRestore
    \/ TcRemoveBackup
    \/ TcRenameNew
    \/ TcFinally

\* ------------------------------------------------------------------------
\* transcode.py: two invocations of transcode_movies at once, with distinct
\* output files in one directory.  A file name is <<stem, suffix>>: suffix 0
\* for f'{name}{ext}', a uuid for f'{name}_{uuid}{ext}'.  The input files are
\* files no invocation writes.
\* ------------------------------------------------------------------------

Invocations == {1, 2}

\* the stems of the output files, and a stem no output file has
OutputStems == {"a", "b"}
Stems == OutputStems \cup {"tmp"}

\* the uuids two invocations draw
Uuids == 1..(2 * Cardinality(Invocations))

FileNames == Stems \X (0..(2 * Cardinality(Invocations)))

\* the content of a file name: none, or what invocation `by` knows as `what`
Absent == [by |-> 0, what |-> "absent"]
Content(by, what) == [by |-> by, what |-> what]

\* a temporary name with a fixed stem and a one-bit suffix
TempNameShort(output_file, uuid) == <<"tmp", uuid % 2>>

\* f'{name}_{uuid.uuid4().hex}{ext}' with name, ext = splitext(output_file)
TempName(output_file, uuid) == <<output_file[1], uuid>>

CcIdle ==
    /\ cc_pc = [p \in Invocations |-> "returned"]
    /\ cc_out = [p \in Invocations |-> <<"a", 0>>]
    /\ cc_tmp = [p \in Invocations |-> <<"a", 0>>]
    /\ cc_tmp2 = [p \in Invocations |-> <<"a", 0>>]
    /\ cc_entry = [p \in Invocations |-> "absent"]
    /\ cc_exc = [p \in Invocations |-> "none"]
    /\ cc_failed = [p \in Invocations |-> {}]
    /\ cc_disk = [n \in FileNames |-> Absent]
    /\ cc_uuid = 0
    /\ cc_touched = {}

CcInit ==
    /\ cc_pc = [p \in Invocations |-> "probe"]
    /\ cc_out \in {f \in [Invocations -> OutputStems \X {0}] :
                      \A p, q \in Invocations : p # q => f[p] # f[q]}
    /\ cc_tmp = cc_out
    /\ cc_tmp2 = cc_out
    /\ cc_entry \in [Invocations -> {"absent", "orig"}]
    /\ cc_exc = [p \in Invocations |-> "none"]
    /\ cc_failed = [p \in Invocations |-> {}]
    /\ cc_disk = [n \in FileNames |->
                    IF \E p \in Invocations : cc_out[p] = n /\ cc_entry[p] = "orig"
                    THEN Content(CHOOSE p \in Invocations : cc_out[p] = n, "orig")
                    ELSE Absent]
    /\ cc_uuid = 0
    /\ cc_touched = {}

\* invocation p goes to pc `to`, with nothing raised
CcGoto(p, to) ==
    /\ cc_pc' = [cc_pc EXCEPT ![p] = to]
    /\ UNCHANGED <<cc_exc, cc_failed>>

\* an operation of invocation p raises
CcRaise(p, op, exc, to) ==
    /\ cc_pc' = [cc_pc EXCEPT ![p] = to]
    /\ cc_exc' = [cc_exc EXCEPT ![p] = exc]
    /\ cc_failed' = [cc_failed EXCEPT ![p] = @ \cup {op}]

\* invocation p creates, renames or removes the names
CcTouch(p, names) ==
    cc_touched' = cc_touched \cup {[by |-> p, name |-> n] : n \in names}

\* os.rename(src, dst) by invocation p: done when src exists, else raising
CcRename(p, src, dst, op, done, failed) ==
    \/ /\ cc_disk[src] # Absent
       /\ cc_disk' = [cc_disk EXCEPT ![dst] = cc_disk[src], ![src] = Absent]
       /\ CcTouch(p, {src, dst})
       /\ CcGoto(p, done)
    \/ /\ CcRaise(p, op, "OSError", failed)
       /\ UNCHANGED <<cc_disk, cc_touched>>

\* os.remove(name) by invocation p: done when name exists, else raising
CcRemove(p, name, op, done, failed) ==
    \/ /\ cc_disk[name] # Absent
       /\ cc_disk' = [cc_disk EXCEPT ![name] = Absent]
       /\ CcTouch(p, {name})
       /\ CcGoto(p, done)
    \/ /\ CcRaise(p, op, "OSError", failed)
       /\ UNCHANGED <<cc_disk, cc_touched>>

\* the input codecs are probed, before the try block
CcProbe ==
    /\ \E p \in Invocations :
          /\ cc_pc[p] = "probe"
          /\ \/ CcGoto(p, "decide")
             \/ CcRaise(p, "probe", "ffmpeg.Error", "raised")
    /\ UNCHANGED <<cc_out, cc_tmp, cc_tmp2, cc_entry, cc_disk, cc_uuid, cc_touched>>
    /\ UNCHANGED ccOthers

\* the temporary names are generated from two fresh uuid4 values
CcDecide ==
    /\ \E p \in Invocations :
          /\ cc_pc[p] = "decide"
          /\ cc_tmp' = [cc_tmp EXCEPT ![p] = TempName(cc_out[p], cc_uuid + 1)]
          /\ cc_tmp2' = [cc_tmp2 EXCEPT ![p] = TempName(cc_out[p], cc_uuid + 2)]
          /\ CcGoto(p, "pipeline")
    /\ cc_uuid' = cc_uuid + 2
    /\ UNCHANGED <<cc_out, cc_entry, cc_disk, cc_touched>>
    /\ UNCHANGED ccOthers

\* the output file is the input file: return
CcNoop ==
    /\ \E p \in Invocations :
          /\ cc_pc[p] = "pipeline"
          /\ cc_disk[cc_out[p]] # Absent
          /\ CcGoto(p, "finally")
    /\ UNCHANGED <<cc_out, cc_tmp, cc_tmp2, cc_entry, cc_disk, cc_uuid, cc_touched>>
    /\ UNCHANGED ccOthers

\* run(): the executor writes temp_output_file; when it fails the file is
\* not written or partial
CcRun ==
    /\ \E p \in Invocations :
          /\ cc_pc[p] = "pipeline"
          /\ \/ /\ cc_disk' = [cc_disk EXCEPT ![cc_tmp[p]] = Content(p, "new")]
                /\ CcTouch(p, {cc_tmp[p]})
                /\ CcGoto(p, "commit")
             \/ /\ cc_disk' = [cc_disk EXCEPT ![cc_tmp[p]] = Content(p, "partial")]
                /\ CcTouch(p, {cc_tmp[p]})
                /\ CcRaise(p, "encode", "ffmpeg.Error", "finally")
             \/ /\ CcRaise(p, "encode", "ffmpeg.Error", "finally")
                /\ UNCHANGED <<cc_disk, cc_touched>>
    /\ UNCHANGED <<cc_out, cc_tmp, cc_tmp2, cc_entry, cc_uuid>>
    /\ UNCHANGED ccOthers

\* output_file exists: os.rename(output_file, temp_output_file2)
CcBackup ==
    /\ \E p \in Invocations :
          /\ cc_pc[p] = "commit"
          /\ cc_disk[cc_out[p]] # Absent
          /\ CcRename(p, cc_out[p], cc_tmp2[p], "backup", "replace", "finally")
    /\ UNCHANGED <<cc_out, cc_tmp, cc_tmp2, cc_entry, cc_uuid>>
    /\ UNCHANGED ccOthers

\* try: os.rename(temp_output_file, output_file)
CcReplace ==
    /\ \E p \in Invocations :
          /\ cc_pc[p] = "replace"
          /\ CcRename(p, cc_tmp[p], cc_out[p], "replace", "unbackup", "restore")
    /\ UNCHANGED <<cc_out, cc_tmp, cc_tmp2, cc_entry, cc_uuid>>
    /\ UNCHANGED ccOthers

\* except: os.rename(temp_output_file2, output_file); raise
CcRestore ==
    /\ \E p \in Invocations :
          /\ cc_pc[p] = "restore"
          /\ CcRename(p, cc_tmp2[p], cc_out[p], "restore", "finally", "finally")
    /\ UNCHANGED <<cc_out, cc_tmp, cc_tmp2, cc_entry, cc_uuid>>
    /\ UNCHANGED ccOthers

\* else: os.remove(temp_output_file2)
CcRemoveBackup ==
    /\ \E p \in Invocations :
          /\ cc_pc[p] = "unbackup"
          /\ CcRemove(p, cc_tmp2[p], "unbackup", "finally", "finally")
    /\ UNCHANGED <<cc_out, cc_tmp, cc_tmp2, cc_entry, cc_uuid>>
    /\ UNCHANGED ccOthers

\* output_file does not exist: os.rename(temp_output_file, output_file)
CcRenameNew ==
    /\ \E p \in Invocations :
          /\ cc_pc[p] = "commit"
          /\ cc_disk[cc_out[p]] = Absent
          /\ CcRename(p, cc_tmp[p], cc_out[p], "rename", "finally", "finally")
    /\ UNCHANGED <<cc_out, cc_tmp, cc_tmp2, cc_entry, cc_uuid>>
    /\ UNCHANGED ccOthers

\* finally: if os.path.exists(temp_output_file): os.remove(temp_output_file);
\* then the invocation returns, or its exception propagates
CcFinally ==
    /\ \E p \in Invocations :
          /\ cc_pc[p] = "finally"
          /\ IF cc_disk[cc_tmp[p]] = Absent
             THEN UNCHANGED <<cc_disk, cc_touched>>
             ELSE /\ cc_disk' = [cc_disk EXCEPT ![cc_tmp[p]] = Absent]
                  /\ CcTouch(p, {cc_tmp[p]})
          /\ cc_pc' = [cc_pc EXCEPT ![p] =
                          IF cc_exc[p] = "none" THEN "returned" ELSE "raised"]
    /\ UNCHANGED <<cc_out, cc_tmp, cc_tmp2, cc_entry, cc_exc, cc_failed, cc_uuid>>
    /\ UNCHANGED ccOthers

CcNext ==
    \/ CcProbe
    \/ CcDecide
    \/ CcNoop
    \/ CcRun
    \/ CcBackup
    \/ CcReplace
    \/ CcRestore
    \/ CcRemoveBackup
    \/ CcRenameNew
    \/ CcFinally

\* ------------------------------------------------------------------------
\* cli.py: fetch_assets, the entries mapped over a ThreadPool
\* ------------------------------------------------------------------------

\* the most entries of one batch
MaxEntries == 2

\* the worker threads of the pool
Workers == {1, 2}

\* fetch_asset_for(e, retry=3)
RetryDefault == 3

IdleWorker == [pc |-> "idle", entry |-> 0, retry |-> 0, msg |-> "", got |-> 0]

PoolIdle ==
    /\ pool_n = 0
    /\ pool_todo = {}
    /\ pool_worker = [w \in Workers |-> IdleWorker]
    /\ pool_counter = 0
    /\ pool_decs = <<>>
    /\ pool_printed = <<>>
    /\ pool_tries = [w \in Workers |-> <<>>]

\* atomic_counter = AtomicCounter(len(entries)); thread_pool.map(...)
PoolInit ==
    /\ pool_n \in 0..MaxEntries
    /\ pool_todo = 1..pool_n
    /\ pool_worker = [w \in Workers |-> IdleWorker]
    /\ pool_counter = pool_n
    /\ pool_decs = [e \in 1..pool_n |-> 0]
    /\ pool_printed = <<>>
    /\ pool_tries = [w \in Workers |-> <<>>]

\* AtomicCounter.add_get(n): the value after the addition, under the lock
AddGet(value, n) == value + n

\* a worker thread takes the next entry and calls fetch_asset_for(e)
PoolTake ==
    /\ \E w \in Workers, e \in pool_todo :
          /\ pool_worker[w].pc = "idle"
          /\ pool_todo' = pool_todo \ {e}
          /\ pool_worker' = [pool_worker EXCEPT ![w] =
                [pc |-> "try", entry |-> e, retry |-> RetryDefault,
                 msg |-> "", got |-> 0]]
          /\ pool_tries' = [pool_tries EXCEPT ![w] = <<>>]
    /\ UNCHANGED <<pool_n, pool_counter, pool_decs, pool_printed>>
    /\ UNCHANGED poolOthers

\* PoolAttempt without the outer handler: with no retry left the exception
\* leaves fetch_asset_for, and the worker is free with nothing counted or
\* printed
PoolAttemptUnguarded ==
    /\ \E w \in Workers :
          /\ pool_worker[w].pc = "try"
          /\ \/ \E msg \in {"finished", "skipped"} :
                   /\ pool_worker' = [pool_worker EXCEPT ![w].msg = msg,
                                                         ![w].pc = "count"]
                   /\ pool_tries' = [pool_tries EXCEPT ![w] = Append(@, msg)]
             \/ /\ IF pool_worker[w].retry - 1 < 0
                   THEN pool_worker' = [pool_worker EXCEPT ![w] = IdleWorker]
                   ELSE pool_worker' = [pool_worker EXCEPT ![w].retry = @ - 1]
                /\ pool_tries' = [pool_tries EXCEPT ![w] =
                      IF pool_worker[w].retry - 1 < 0 THEN <<>>
                      ELSE Append(@, "raised")]
    /\ UNCHANGED <<pool_n, pool_todo, pool_counter, pool_decs, pool_printed>>
    /\ UNCHANGED poolOthers

\* PoolAttempt giving up one exception later: retry is compared with -1
PoolAttemptOneMore ==
    /\ \E w \in Workers :
          /\ pool_worker[w].pc = "try"
          /\ \/ \E msg \in {"finished", "skipped"} :
                   /\ pool_worker' = [pool_worker EXCEPT ![w].msg = msg,
                                                         ![w].pc = "count"]
                   /\ pool_tries' = [pool_tries EXCEPT ![w] = Append(@, msg)]
             \/ /\ IF pool_worker[w].retry - 1 < -1
                   THEN pool_worker' = [pool_worker EXCEPT ![w].retry = @ - 1,
                                                           ![w].msg = "failed",
                                                           ![w].pc = "count"]
                   ELSE pool_worker' = [pool_worker EXCEPT ![w].retry = @ - 1]
                /\ pool_tries' = [pool_tries EXCEPT ![w] = Append(@, "raised")]
    /\ UNCHANGED <<pool_n, pool_todo, pool_counter, pool_decs, pool_printed>>
    /\ UNCHANGED poolOthers

\* one turn of the while loop: the assets are made (finished) or found
\* present (skipped), or an exception costs a retry; with no retry left it is
\* re-raised and the outer handler makes the failed message
PoolAttempt ==
    /\ \E w \in Workers :
          /\ pool_worker[w].pc = "try"
          /\ \/ \E msg \in {"finished", "skipped"} :
                   /\ pool_worker' = [pool_worker EXCEPT ![w].msg = msg,
                                                         ![w].pc = "count"]
                   /\ pool_tries' = [pool_tries EXCEPT ![w] = Append(@, msg)]
             \/ /\ IF pool_worker[w].retry - 1 < 0
                   THEN pool_worker' = [pool_worker EXCEPT ![w].retry = @ - 1,
                                                           ![w].msg = "failed",
                                                           ![w].pc = "count"]
                   ELSE pool_worker' = [pool_worker EXCEPT ![w].retry = @ - 1]
                /\ pool_tries' = [pool_tries EXCEPT ![w] = Append(@, "raised")]
    /\ UNCHANGED <<pool_n, pool_todo, pool_counter, pool_decs, pool_printed>>
    /\ UNCHANGED poolOthers

\* atomic_counter.add_get(-1), the argument of the print being evaluated
PoolAddGet ==
    /\ \E w \in Workers :
          /\ pool_worker[w].pc = "count"
          /\ pool_counter' = AddGet(pool_counter, -1)
          /\ pool_decs' = [pool_decs EXCEPT ![pool_worker[w].entry] = @ + 1]
          /\ pool_worker' = [pool_worker EXCEPT ![w].got = pool_counter',
                                                ![w].pc = "print"]
    /\ UNCHANGED <<pool_n, pool_todo, pool_printed, pool_tries>>
    /\ UNCHANGED poolOthers

\* print(f'{index_fmt(... + 1)}: {msg}'); the worker is free again
PoolPrint ==
    /\ \E w \in Workers :
          /\ pool_worker[w].pc = "print"
          /\ pool_printed' = Append(pool_printed,
                [shown |-> pool_worker[w].got + 1,
                 entry |-> pool_worker[w].entry,
                 msg |-> pool_worker[w].msg])
          /\ pool_worker' = [pool_worker EXCEPT ![w] = IdleWorker]
          /\ pool_tries' = [pool_tries EXCEPT ![w] = <<>>]
    /\ UNCHANGED <<pool_n, pool_todo, pool_counter, pool_decs>>
    /\ UNCHANGED poolOthers

PoolNext ==
    \/ PoolTake
    \/ PoolAttempt
    \/ PoolAddGet
    \/ PoolPrint

\* ------------------------------------------------------------------------
\* assets.py: one AssetsDBMaker under calls of add(name, content, meta)
\* ------------------------------------------------------------------------

\* the most calls of add on one maker
MaxAdds == 3

\* the names given to add
AddNames == {<<"c">>,
             <<"c", "_", "1">>,
             <<"c", ".", "j", "p", "g">>,
             <<"c", "_", "1", ".", "j", "p", "g">>,
             <<"c", ".", "j", "s", "o", "n">>}

\* os.path.splitext(name), for a name without directory separators
Splitext(name) ==
    <<Slice(name, 0, ExtStart(name) - 1),
      Slice(name, ExtStart(name) - 1, Len(name))>>

\* str(idx) for the values idx takes
StrOfIdx(idx) == IF idx = 1 THEN <<"1">> ELSE <<"?">>

\* f'{base_name}_{idx}'
NewName(name, idx) == Splitext(name)[1] \o <<"_">> \o StrOfIdx(idx)

\* f'{name}.json'
MetaMember(name) == name \o <<".", "j", "s", "o", "n">>

MkIdle ==
    /\ mk_pc = "idle"
    /\ mk_name = <<>>
    /\ mk_idx = 0
    /\ mk_meta = {}
    /\ mk_returned = <<>>
    /\ mk_members = <<>>

\* AssetsDBMaker(path): MaxAdds calls to come
MkInit == MkIdle

\* add the entry under name and return name
MkStore(name) ==
    /\ mk_members' = mk_members \o <<name, MetaMember(name)>>
    /\ mk_meta' = mk_meta \cup {name}
    /\ mk_returned' = Append(mk_returned, name)
    /\ mk_pc' = "idle"
    /\ mk_name' = <<>>
    /\ mk_idx' = 0

\* add(name, ...) is called: a name not in meta_dict is stored as it is;
\* otherwise idx = 1 and the while loop is entered
MkAdd ==
    /\ mk_pc = "idle"
    /\ Len(mk_returned) < MaxAdds
    /\ \E name \in AddNames :
          IF name \in mk_meta
          THEN /\ mk_pc' = "loop"
               /\ mk_name' = name
               /\ mk_idx' = 1
               /\ UNCHANGED <<mk_meta, mk_returned, mk_members>>
          ELSE MkStore(name)
    /\ UNCHANGED mkOthers

\* one turn of the while loop: new_name is tried; when it is not a key of
\* meta_dict the loop ends and new_name with the extension is stored,
\* otherwise the next turn begins, with idx as it was
MkTurn ==
    /\ mk_pc = "loop"
    /\ IF NewName(mk_name, mk_idx) \notin mk_meta
       THEN MkStore(NewName(mk_name, mk_idx) \o Splitext(mk_name)[2])
       ELSE UNCHANGED mkVars
    /\ UNCHANGED mkOthers

MkNext ==
    \/ MkAdd
    \/ MkTurn

\* ------------------------------------------------------------------------
\* cli.py: the transcode command for one entry
\* ------------------------------------------------------------------------

CmdIdle ==
    /\ cmd_pc = "done"
    /\ cmd_simulate = FALSE
    /\ cmd_no_delete_input = FALSE
    /\ cmd_i = 0
    /\ cmd_removed = <<>>
    /\ cmd_trace = FALSE

\* input_files of an entry: the paths of its movie files, which are
\* different files; output_file is the first of them with the extension mp4
CmdFirstInputs == {<<"out.mkv">>, <<"out.mp4">>}
CmdMoreInputs == {<<"a.mp4">>, <<"b.mp4">>, <<"out.mp4">>}

CmdInputFiles ==
    {files \in SeqsUpTo(CmdFirstInputs \cup CmdMoreInputs, MaxInputs) :
        /\ files # <<>>
        /\ files[1] \in CmdFirstInputs
        /\ \A i \in 2..Len(files) : files[i] \in CmdMoreInputs
        /\ \A i, j \in 1..Len(files) : i # j => files[i] # files[j]}

\* the command reaches try_execute(lambda: do_transcode(input_files,
\* output_file)) for an entry; transcode_movies is not yet called
CmdInit ==
    /\ cmd_pc = "start"
    /\ cmd_simulate \in BOOLEAN
    /\ cmd_no_delete_input \in BOOLEAN
    /\ cmd_i = 0
    /\ cmd_removed = <<>>
    /\ cmd_trace = FALSE
    /\ tc_pc = "uncalled"
    /\ tc_input_files \in CmdInputFiles
    /\ tc_input_codecs = <<>>
    /\ tc_audio_nt = TRUE
    /\ tc_video_nt = TRUE
    /\ \E out \in {"absent", "orig"} :
          /\ tc_disk = Disk(out, "absent", "absent")
          /\ tc_entry = out
    /\ tc_exc = "none"
    /\ tc_playlist = <<>>
    /\ tc_runs = <<>>
    /\ tc_failed = {}

tcRest == <<tc_input_files, tc_input_codecs, tc_audio_nt, tc_video_nt,
            tc_entry, tc_exc, tc_playlist, tc_runs, tc_failed>>

\* if not simulate: fails, and do_transcode returns
CmdSimulate ==
    /\ cmd_pc = "start"
    /\ cmd_simulate
    /\ cmd_pc' = "done"
    /\ UNCHANGED <<cmd_simulate, cmd_no_delete_input, cmd_i, cmd_removed,
                   cmd_trace>>
    /\ UNCHANGED <<tc_pc, tc_disk, tcRest>>
    /\ UNCHANGED cmdOthers

\* transcode_movies(input_files, output_file) is called
CmdCall ==
    /\ cmd_pc = "start"
    /\ ~cmd_simulate
    /\ cmd_pc' = "engine"
    /\ tc_pc' = "check"
    /\ UNCHANGED <<cmd_simulate, cmd_no_delete_input, cmd_i, cmd_removed,
                   cmd_trace>>
    /\ UNCHANGED <<tc_disk, tcRest>>
    /\ UNCHANGED cmdOthers

\* transcode_movies has returned: if not no_delete_input, the loop over
\* input_files begins
CmdReturned ==
    /\ cmd_pc = "engine"
    /\ tc_pc = "returned"
    /\ cmd_pc' = IF cmd_no_delete_input THEN "done" ELSE "delete"
    /\ UNCHANGED <<cmd_simulate, cmd_no_delete_input, cmd_i, cmd_removed,
                   cmd_trace>>
    /\ UNCHANGED <<tc_pc, tc_disk, tcRest>>
    /\ UNCHANGED cmdOthers

\* CmdCaught with the deletion done whatever happened: the loop over
\* input_files begins after the trace
CmdCaughtDeleting ==
    /\ cmd_pc = "engine"
    /\ tc_pc = "raised"
    /\ cmd_trace' = TRUE
    /\ cmd_pc' = IF cmd_no_delete_input THEN "done" ELSE "delete"
    /\ UNCHANGED <<cmd_simulate, cmd_no_delete_input, cmd_i, cmd_removed>>
    /\ UNCHANGED <<tc_pc, tc_disk, tcRest>>
    /\ UNCHANGED cmdOthers

\* transcode_movies has raised: the exception leaves do_transcode, and
\* try_execute prints the trace
CmdCaught ==
    /\ cmd_pc = "engine"
    /\ tc_pc = "raised"
    /\ cmd_trace' = TRUE
    /\ cmd_pc' = "done"
    /\ UNCHANGED <<cmd_simulate, cmd_no_delete_input, cmd_i, cmd_removed>>
    /\ UNCHANGED <<tc_pc, tc_disk, tcRest>>
    /\ UNCHANGED cmdOthers

\* the file at path exists: it was not removed, and the output file is there
\* as the engine left it
CmdExists(path) ==
    /\ \A k \in 1..Len(cmd_removed) : cmd_removed[k] # Abspath(path)
    /\ Abspath(path) = Abspath(OutputFile) => tc_disk.out # "absent"

\* os.path.samefile(a, b) of two existing files, without links
Samefile(a, b) == Abspath(a) = Abspath(b)

\* one turn of the loop over input_files: samefile raises when one of the
\* files is missing; an input that is not the output file is removed, which
\* can raise; an exception leaves do_transcode, and try_execute prints the
\* trace
CmdDelete ==
    /\ cmd_pc = "delete"
    /\ IF cmd_i = Len(tc_input_files)
       THEN /\ cmd_pc' = "done"
            /\ UNCHANGED <<cmd_i, cmd_removed, cmd_trace, tc_disk>>
       ELSE LET input_file == tc_input_files[cmd_i + 1]
            IN  IF ~CmdExists(input_file) \/ ~CmdExists(OutputFile)
                THEN /\ cmd_trace' = TRUE
                     /\ cmd_pc' = "done"
                     /\ UNCHANGED <<cmd_i, cmd_removed, tc_disk>>
                ELSE IF Samefile(input_file, OutputFile)
                THEN /\ cmd_i' = cmd_i + 1
                     /\ UNCHANGED <<cmd_pc, cmd_removed, cmd_trace, tc_disk>>
                ELSE \/ /\ cmd_removed' =
                              Append(cmd_removed, Abspath(input_file))
                        /\ cmd_i' = cmd_i + 1
                        /\ UNCHANGED <<cmd_pc, cmd_trace, tc_disk>>
                     \/ /\ cmd_trace' = TRUE
                        /\ cmd_pc' = "done"
                        /\ UNCHANGED <<cmd_i, cmd_removed, tc_disk>>
    /\ UNCHANGED <<cmd_simulate, cmd_no_delete_input>>
    /\ UNCHANGED <<tc_pc, tcRest>>
    /\ UNCHANGED cmdOthers

CmdNext ==
    \/ CmdSimulate
    \/ CmdCall
    \/ CmdReturned
    \/ CmdCaught
    \/ CmdDelete

\* ------------------------------------------------------------------------
\* The specifications
\* ------------------------------------------------------------------------


\* one AVFilesMatcher under any calls of match() and get()
ClassifierInit == FmInit /\ ScanIdle /\ TcIdle /\ CcIdle /\ PoolIdle
    /\ MkIdle /\ CmdIdle
ClassifierNext == FmNext
SpecClassifier == ClassifierInit /\ [][ClassifierNext]_vars

\* one scan of a tree by AVScanner.find_iter
ScannerInit == FmIdle /\ ScanInit /\ TcIdle /\ CcIdle /\ PoolIdle
    /\ MkIdle /\ CmdIdle
ScannerNext == ScanNext
SpecScanner == ScannerInit /\ [][ScannerNext]_vars

\* one invocation of transcode_movies
TranscodeInit == FmIdle /\ ScanIdle /\ TcInit /\ CcIdle /\ PoolIdle
    /\ MkIdle /\ CmdIdle
TranscodeNext == TcNext
SpecTranscode == TranscodeInit /\ [][TranscodeNext]_vars

\* two invocations of transcode_movies at once
ConcurrentInit == FmIdle /\ ScanIdle /\ TcIdle /\ CcInit /\ PoolIdle
    /\ MkIdle /\ CmdIdle
ConcurrentNext == CcNext
SpecConcurrent == ConcurrentInit /\ [][ConcurrentNext]_vars

\* one pooled batch of fetch_assets
BatchInit == FmIdle /\ ScanIdle /\ TcIdle /\ CcIdle /\ PoolInit
    /\ MkIdle /\ CmdIdle
BatchNext == PoolNext
SpecBatch == BatchInit /\ [][BatchNext]_vars

\* the same batch with the pool's threads scheduled: a worker that can take a
\* step eventually takes one
SpecBatchFair == BatchInit /\ [][BatchNext]_vars /\ WF_vars(BatchNext)

\* one AssetsDBMaker under any calls of add
MakerInit == FmIdle /\ ScanIdle /\ TcIdle /\ CcIdle /\ PoolIdle
    /\ MkInit /\ CmdIdle
MakerNext == MkNext
SpecMaker == MakerInit /\ [][MakerNext]_vars

\* the transcode command on one entry: do_transcode under try_execute, with
\* transcode_movies inside
CommandInit == FmIdle /\ ScanIdle /\ CcIdle /\ PoolIdle /\ MkIdle /\ CmdInit
CommandNext == CmdNext \/ TcNext
SpecCommand == CommandInit /\ [][CommandNext]_vars

\* one run of either: a pooled batch of fetch_assets, or one invocation of
\* transcode_movies; whatever can take a step eventually takes one
EitherInit == TranscodeInit \/ BatchInit
EitherNext == TcNext \/ PoolNext
SpecEither == EitherInit /\ [][EitherNext]_vars /\ WF_vars(EitherNext)

\* ------------------------------------------------------------------------
\* Properties of the file classifier (SpecClassifier)
\* ------------------------------------------------------------------------

\* the calls of match() made so far that reached the pattern: regular files
FileCalls == {i \in 1..Len(fm_calls) : fm_calls[i].isfile}

\* the name ends in an incomplete-download suffix, in any letter case
HasDownloadSuffix(name) ==
    \E k \in 1..Len(DOWNLOADING_EXTENSIONS) :
        EndsWith(Lower(name), <<".">> \o DOWNLOADING_EXTENSIONS[k])

\* the identifiers, upper-cased, of the names among the calls in I that the
\* file pattern takes and that satisfy P
IdsCalled(I, P(_)) ==
    {Upper(m.id) : m \in UNION {FilePatternTable[fm_calls[i].name] :
                                   i \in {j \in I : P(fm_calls[j].name)}}}

IsPlainName(name) == ~HasDownloadSuffix(name)

\* the identifiers get() would produce entries for now
IdsProduced ==
    LET entries == CHOOSE r \in {FilesMatcherGet(x) : x \in {fm}} : TRUE
    IN  {entries[k].movie_id : k \in 1..Len(entries)}

\* C1: once match() has seen a file of identifier X that carries an
\* incomplete-download suffix, get() on that classifier produces no entry for
\* X, whatever files of X were seen before or are seen after
C1_PoisonIsPermanent ==
    IdsCalled(FileCalls, HasDownloadSuffix) \cap IdsProduced = {}

\* C1 witness: a file of X was recorded, then a download file of X was seen,
\* then another file of X, and get() has been called
C1_Witness ==
    /\ Len(fm_calls) = 3
    /\ fm_got.called
    /\ \E x \in IdsCalled({2} \cap FileCalls, HasDownloadSuffix) :
          /\ x \in IdsCalled({1} \cap FileCalls, IsPlainName)
          /\ x \in IdsCalled({3} \cap FileCalls, IsPlainName)
          /\ fm.movie_id \in {None, x}

\* the value of a string of decimal digits
RECURSIVE DigitsValue(_)
DigitsValue(digits) ==
    IF digits = <<>> THEN 0
    ELSE 10 * DigitsValue(SubSeq(digits, 1, Len(digits) - 1))
         + (Ord(digits[Len(digits)]) - Ord("0"))

\* the order a filename carries: the value of its ordinal group, the letter
\* group's ordinal, and 0 when it has no ordinal group
NameOrder(name) ==
    LET m == CHOOSE x \in FilePatternTable[name] : TRUE
    IN  IF m.order3 # None THEN Ord(m.order3[1]) - Ord("0")
        ELSE IF m.order2 # None THEN DigitsValue(m.order2)
        ELSE IF m.order1 # None THEN DigitsValue(m.order1)
        ELSE 0

\* the position of the call of match() that recorded the name
CallIndex(name) == CHOOSE i \in 1..Len(fm_calls) : fm_calls[i].name = name

\* the movie file lists get() would return now
MovieFileLists ==
    LET entries == CHOOSE r \in {FilesMatcherGet(x) : x \in {fm}} : TRUE
    IN  {entries[k].movie_files : k \in 1..Len(entries)}

\* every recorded (order, name) pair carries the order of its name
OrdersRecorded ==
    \A i \in 1..Len(fm.files_to_process) :
        \A k \in 1..Len(fm.files_to_process[i].list) :
            LET pair == fm.files_to_process[i].list[k]
            IN  pair[1] = NameOrder(pair[2])

\* C6 as stated: the files of an entry ascend by order, files of equal order
\* stay in the order in which they were recorded, and a file with no ordinal
\* group has order 0
C6_TiesInInsertionOrder ==
    /\ OrdersRecorded
    /\ \A files \in MovieFileLists :
          \A i, j \in 1..Len(files) :
              i < j =>
                 \/ NameOrder(files[i]) < NameOrder(files[j])
                 \/ /\ NameOrder(files[i]) = NameOrder(files[j])
                    /\ CallIndex(files[i]) < CallIndex(files[j])

\* C6: the files of an entry ascend by order, files of equal order ascend by
\* filename (the comparison of Python strings), and a file with no ordinal
\* group has order 0
C6_TiesByFilename ==
    /\ OrdersRecorded
    /\ \A files \in MovieFileLists :
          \A i, j \in 1..Len(files) :
              i < j =>
                 \/ NameOrder(files[i]) < NameOrder(files[j])
                 \/ /\ NameOrder(files[i]) = NameOrder(files[j])
                    /\ StrLess(files[i], files[j])

\* C6 witness: get() has returned an entry with two files of equal order, of
\* which the one recorded later has the smaller filename
C6_Witness ==
    /\ fm_got.called
    /\ \E files \in MovieFileLists :
          \E i, j \in 1..Len(files) :
              /\ i < j
              /\ NameOrder(files[i]) = NameOrder(files[j])
              /\ CallIndex(files[i]) > CallIndex(files[j])

\* the parts of one movie: ID.ext, ID-2.ext and ID(3).ext
PartPlain == <<"A","-","1",".","m","p","4">>
PartDash2 == <<"a","-","1","-","2",".","m","p","4">>
PartParen3 == <<"A","-","1","(","3",")",".","m","p","4">>

\* match() has been called on exactly the three parts, in some order
PartsCalled ==
    /\ Len(fm_calls) = 3
    /\ {fm_calls[i].name : i \in 1..3} = {PartPlain, PartDash2, PartParen3}

\* C14: after match() on ID.ext, ID-2.ext and ID(3).ext in any order, the
\* files are recorded under the uppercase ID with orders 0, 2 and 3 and get()
\* returns exactly one entry, its movie_files being ID.ext, ID-2.ext, ID(3).ext
C14_NumberedParts ==
    PartsCalled =>
        /\ Len(fm.files_to_process) = 1
        /\ fm.files_to_process[1].id = <<"A","-","1">>
        /\ {fm.files_to_process[1].list[k] : k \in 1..3} =
               {<<0, PartPlain>>, <<2, PartDash2>>, <<3, PartParen3>>}
        /\ FilesMatcherGet(fm) =
               <<AVEntry(<<"A","-","1">>, ParentDir, FALSE,
                         <<PartPlain, PartDash2, PartParen3>>, TRUE, <<>>)>>

\* C14 witness: the three parts were observed in descending order and get()
\* has returned them
C14_Witness ==
    /\ PartsCalled
    /\ fm_calls[1].name = PartParen3 /\ fm_calls[3].name = PartPlain
    /\ fm_got.called
    /\ Len(fm_got.entries) = 1

\* the name carries a parenthesized or dash-prefixed digit string as its
\* ordinal group, and no download suffix
HasDigitOrdinal(name) ==
    \E m \in FilePatternTable[name] :
        m.download_ext = None /\ (m.order1 # None \/ m.order2 # None)

\* classifier fm holds the pair (order, name)
Recorded(order, name) ==
    \E i \in 1..Len(fm.files_to_process) :
        \E k \in 1..Len(fm.files_to_process[i].list) :
            fm.files_to_process[i].list[k] = <<order, name>>

\* C19 as stated: match() on a filename with a digit-string ordinal group
\* completes without error, and the file (of an identifier in scope and not
\* poisoned) is recorded with the numeric value of the digit string as order
C19_DigitStringOrder ==
    \A i \in FileCalls :
        LET name == fm_calls[i].name
            ids == IdsCalled({i}, HasDigitOrdinal)
        IN  HasDigitOrdinal(name) =>
                /\ i = Len(fm_calls) => ~fm_raised
                /\ ( /\ \A x \in ids : fm.movie_id \in {None, x}
                     /\ ids \cap IdsCalled(FileCalls, HasDownloadSuffix) = {} )
                      => Recorded(NameOrder(name), name)

\* ------------------------------------------------------------------------
\* Properties of the scanner and the directory matchers (SpecScanner)
\* ------------------------------------------------------------------------

\* path p lies below directory d, at any depth
StrictlyUnder(p, d) == Len(p) > Len(d) /\ SubSeq(p, 1, Len(d)) = d

\* C5: for every directory D a directory matcher returned an entry for, the
\* scan yields exactly one entry whose parent_dir is D and none whose
\* parent_dir lies below D, enters no directory below D, and enters D once
C5_DirectoryPrecedence ==
    \A d \in scan_matched :
        /\ Cardinality({k \in 1..Len(scan_out) : scan_out[k].parent_dir = d}) = 1
        /\ \A k \in 1..Len(scan_out) : ~StrictlyUnder(scan_out[k].parent_dir, d)
        /\ \A k \in 1..Len(scan_visited) : ~StrictlyUnder(scan_visited[k], d)
        /\ Cardinality({k \in 1..Len(scan_visited) : scan_visited[k] = d}) = 1

\* C5 witness: the scan is over and a matched directory holds a movie file of
\* its own beside a subdirectory that holds files
C5_Witness ==
    /\ scan_pc = "done"
    /\ \E d \in scan_matched :
          /\ \E n \in fs : ~n.isdir /\ Len(n.path) = Len(d) + 1
                           /\ StrictlyUnder(n.path, d)
          /\ \E n \in fs : n.isdir /\ StrictlyUnder(n.path, d)
                           /\ Children(n.path) # {}

\* the directories the default matcher returned an entry for
DefaultMatched ==
    {d \in scan_matched : DefaultDirPatternTable[BaseName(d)] # {}}

\* name, a file of directory d, is a movie file of movie_id
IsMovieFileOf(name, movie_id) ==
    \E m \in FilePatternTable[name] :
        Upper(m.id) = movie_id /\ m.download_ext = None

\* name is an asset file whose base name is the directory name or the
\* identifier, in any letter case
IsAssetFileOf(name, dir_name, movie_id) ==
    LET left == Slice(name, 0, ExtStart(name) - 1)
        ext == Slice(name, ExtStart(name), Len(name))
    IN  /\ Upper(left) \in {Upper(dir_name), movie_id}
        /\ \E x \in 1..Len(ASSET_EXTENSIONS) : Lower(ext) = ASSET_EXTENSIONS[x]

\* C7 as stated: an entry of the default matcher has own_dir set only if
\* every file of its directory is a movie file of its identifier or an asset
\* file named after the directory or the identifier
C7_OwnDirOnlyIfExclusive ==
    \A k \in 1..Len(scan_out) :
        LET e == scan_out[k]
        IN  (e.parent_dir \in DefaultMatched /\ e.own_dir) =>
                \A name \in Children(e.parent_dir) :
                    IsFile(Join(e.parent_dir, name)) =>
                        \/ IsMovieFileOf(name, e.movie_id)
                        \/ IsAssetFileOf(name, BaseName(e.parent_dir), e.movie_id)

\* movie_id is in canonical form: [A-Z0-9]+-[0-9]+
IsCanonicalId(movie_id) ==
    \E k \in 2..(Len(movie_id) - 1) :
        /\ movie_id[k] = "-"
        /\ \A i \in 1..(k - 1) : IsUpper(movie_id[i]) \/ IsDigit(movie_id[i])
        /\ \A i \in (k + 1)..Len(movie_id) : IsDigit(movie_id[i])

\* C8 as stated: every entry a scan yields has a movie_id in canonical
\* uppercase form
C8_CanonicalMovieId ==
    \A k \in 1..Len(scan_out) : IsCanonicalId(scan_out[k].movie_id)

\* the positions in scan_out of the entries assembled from the loose files
\* directly inside directory d, a directory no matcher returned an entry for
LooseEntries(d) ==
    IF d \in scan_matched THEN {}
    ELSE {k \in 1..Len(scan_out) : scan_out[k].parent_dir = d}

\* the positions in scan_out of the entries that originate below directory d
EntriesBelow(d) ==
    {k \in 1..Len(scan_out) : StrictlyUnder(scan_out[k].parent_dir, d)}

\* the directories of the tree
Dirs == {n.path : n \in {x \in fs : x.isdir}}

\* C12: for every unmatched directory D, every entry that originates below D
\* is yielded before every entry assembled from D's loose files, and once a
\* loose-file entry of D is yielded every subdirectory of D has been visited
\* and no call of g on D or below D is still active
C12_YieldOrder ==
    \A d \in Dirs :
        /\ \A i \in LooseEntries(d) : \A j \in EntriesBelow(d) : j < i
        /\ LooseEntries(d) # {} =>
              /\ \A c \in Dirs :
                    (Len(c) = Len(d) + 1 /\ StrictlyUnder(c, d)) =>
                        \E k \in 1..Len(scan_visited) : scan_visited[k] = c
              /\ \A k \in 1..Len(scan_stack) :
                    scan_stack[k].dir # d /\ ~StrictlyUnder(scan_stack[k].dir, d)

\* C12 witness: the scan is over and has yielded, for one unmatched directory,
\* an entry from its loose files and an entry from below it
C12_Witness ==
    /\ scan_pc = "done"
    /\ \E d \in Dirs : LooseEntries(d) # {} /\ EntriesBelow(d) # {}

\* the directories the EverAver matcher returned an entry for
EverAverMatched ==
    {d \in scan_matched : /\ DefaultDirPatternTable[BaseName(d)] = {}
                          /\ EverAverDirPatternTable[BaseName(d)] # {}}

\* the children of directory d whose base name ends, in any letter case, with
\* the name of d and whose extension is a movie extension
EverAverMovies(d) ==
    {name \in Children(d) :
        LET left == Slice(name, 0, ExtStart(name) - 1)
            ext == Slice(name, ExtStart(name), Len(name))
        IN  /\ EndsWith(Lower(left), Lower(BaseName(d)))
            /\ \E x \in 1..Len(MOVIE_EXTENSIONS) : Lower(ext) = MOVIE_EXTENSIONS[x]}

\* C13 as stated: the EverAver matcher returns an entry for a directory only
\* when exactly one child is such a movie file
C13_EverAverExactlyOne ==
    \A d \in EverAverMatched : Cardinality(EverAverMovies(d)) = 1

\* every entry of the sequence has a movie file
AllNonEmpty(entries) ==
    \A k \in 1..Len(entries) : entries[k].movie_files # <<>>

\* classifier c returns no entry without a movie file and holds no open
\* identifier without a recorded file
NoEmptyList(c) ==
    /\ AllNonEmpty(FilesMatcherGet(c))
    /\ \A i \in 1..Len(c.files_to_process) :
          \/ c.files_to_process[i].forbidden
          \/ c.files_to_process[i].list # <<>>

\* C15: every entry a classifier's get() returns and every entry the scanner
\* yields has a non-empty movie_files list, and no classifier (the one called
\* directly, the local files_matcher of every active call of g) holds an open
\* identifier without a recorded file
C15_MovieFilesNonEmpty ==
    /\ AllNonEmpty(scan_out)
    /\ AllNonEmpty(fm_got.entries)
    /\ NoEmptyList(fm)
    /\ \A k \in 1..Len(scan_stack) : NoEmptyList(scan_stack[k].fm)

\* C15 witness: the scan is over, has yielded an entry, and went through an
\* unmatched directory that holds an incomplete download
C15_Witness ==
    /\ scan_pc = "done"
    /\ scan_out # <<>>
    /\ \E d \in Dirs \ scan_matched :
          /\ \E k \in 1..Len(scan_visited) : scan_visited[k] = d
          /\ \E name \in Children(d) : HasDownloadSuffix(name)

\* ------------------------------------------------------------------------
\* Properties of transcode_movies (SpecTranscode)
\* ------------------------------------------------------------------------

\* C2: when the output path exists at entry, the encode has succeeded and the
\* final rename of the temporary file onto the output path is the operation
\* that fails, then once transcode_movies has raised the output path holds
\* its original content and neither temporary name is left
C2_AtomicRollback ==
    (tc_pc = "raised" /\ tc_entry = "orig" /\ tc_failed = {"replace"})
        => tc_disk = Disk("orig", "absent", "absent")

\* C2 witness: the encode wrote the temporary file, the final rename failed
\* and the exception has propagated
C2_Witness ==
    /\ tc_pc = "raised" /\ tc_entry = "orig" /\ tc_failed = {"replace"}
    /\ Len(tc_runs) = 1
    /\ tc_exc = "OSError"

\* C3 as stated: whenever an exception propagates out of transcode_movies,
\* the primary temporary file does not exist and the output path is as it was
\* at entry
C3_ExceptionLeavesOutputAsFound ==
    tc_pc = "raised" =>
        /\ tc_disk.tmp = "absent"
        /\ tc_disk.out = tc_entry

\* C4 as stated: when the output path exists at entry, it holds the complete
\* new content or the untouched original in every state of the invocation
C4_OutputNeverMissing ==
    tc_entry = "orig" => tc_disk.out \in {"orig", "new"}

\* the codec flags have been determined
Decided ==
    /\ tc_pc \notin {"check", "probe", "decide"}
    /\ tc_input_files # <<>>
    /\ Len(tc_input_codecs) = Len(tc_input_files)

\* the codec name of a stream's attributes, "" when it has none
CodecName(attrs) ==
    IF "codec_name" \in DOMAIN attrs THEN attrs["codec_name"] ELSE ""

\* audioCopy and videoCopy as defined over all pairs of inputs
AudioCopy ==
    \/ Len(tc_input_codecs) = 1
    \/ \A i, j \in 1..Len(tc_input_codecs) :
          tc_input_codecs[i].audio = tc_input_codecs[j].audio

VideoCopy ==
    /\ \/ Len(tc_input_codecs) = 1
       \/ \A i, j \in 1..Len(tc_input_codecs) :
             tc_input_codecs[i].video = tc_input_codecs[j].video
    /\ \A i \in 1..Len(tc_input_codecs) :
          CodecName(tc_input_codecs[i].video) \in {"h264", "hevc"}

\* C9: once the codecs are decided, the audio track is copied iff there is one
\* input or all inputs' audio attributes are pairwise equal, and the video
\* track is copied iff (there is one input or all inputs' video attributes are
\* pairwise equal) and the shared codec name is h264 or hevc; the code's
\* adjacent-pair tests agree with these all-pairs tests
C9_CopyDecision ==
    Decided =>
        /\ ~tc_audio_nt <=> AudioCopy
        /\ ~tc_video_nt <=> VideoCopy

\* C9 witness: three inputs decided, the first two with equal video
\* attributes and the third with others, so the video track is re-encoded
C9_Witness ==
    /\ Decided
    /\ Len(tc_input_codecs) = 3
    /\ tc_input_codecs[1].video = tc_input_codecs[2].video
    /\ tc_input_codecs[3].video # tc_input_codecs[1].video
    /\ CodecName(tc_input_codecs[1].video) = "h264"
    /\ tc_video_nt /\ ~tc_audio_nt

\* the pipeline of an invocation, by the number of inputs, the two copy
\* decisions and whether the input path is the output path
ChosenPipeline ==
    IF AudioCopy /\ VideoCopy
    THEN IF Len(tc_input_files) > 1 THEN "concat-copy"
         ELSE IF Abspath(tc_input_files[1]) = Abspath(OutputFile) THEN "no-op"
         ELSE "direct-copy"
    ELSE "re-encode"

\* C10: an invocation runs the executor at most once; a run is of the pipeline
\* chosen by (number of inputs, audioCopy, videoCopy, input is output); the
\* no-op runs nothing and every other pipeline that returns has run once;
\* concat-copy reads the playlist, the inputs in their order
C10_PipelineSelection ==
    /\ Len(tc_runs) <= 1
    /\ Decided =>
          /\ \A k \in 1..Len(tc_runs) :
                /\ tc_runs[k].pipeline = ChosenPipeline
                /\ tc_runs[k].pipeline # "no-op"
                /\ tc_runs[k].pipeline = "concat-copy" =>
                      tc_runs[k].inputs = [i \in 1..Len(tc_input_files) |->
                                              Abspath(tc_input_files[i])]
          /\ (tc_playlist # <<>> \/ "playlist" \in tc_failed)
                => ChosenPipeline = "concat-copy"
          /\ tc_pc = "returned" =>
                (Len(tc_runs) = 0 <=> ChosenPipeline = "no-op")

\* C10 witness: inputs A (h264/aac) and B (h264/mp3) were re-encoded in one
\* run and the invocation returned
C10_Witness ==
    /\ tc_pc = "returned"
    /\ Len(tc_input_files) = 2
    /\ tc_input_codecs = <<MovieCodec(VideoH264High, AudioAac),
                           MovieCodec(VideoH264High, AudioMp3)>>
    /\ Len(tc_runs) = 1
    /\ tc_runs[1].pipeline = "re-encode"

\* the invocation has one input, copy-eligible in both tracks, whose path is
\* the output path
SameFileCopy ==
    /\ Decided
    /\ Len(tc_input_files) = 1
    /\ AudioCopy /\ VideoCopy
    /\ Abspath(tc_input_files[1]) = Abspath(OutputFile)

\* C11: with a single copy-eligible input whose path is the output path,
\* transcode_movies does not raise, never runs the executor, writes no
\* playlist, creates no temporary file, renames nothing and leaves the output
\* file as it was
C11_NoOp ==
    SameFileCopy =>
        /\ tc_pc \in {"pipeline", "finally", "returned"}
        /\ tc_exc = "none" /\ tc_failed = {}
        /\ tc_runs = <<>> /\ tc_playlist = <<>>
        /\ tc_disk = Disk(tc_entry, "absent", "absent")

\* C11 witness: such an invocation, its input written ./out.mp4, has returned
C11_Witness ==
    /\ SameFileCopy
    /\ tc_input_files[1] # OutputFile
    /\ tc_pc = "returned"

\* C18: called with an empty input list, transcode_movies raises ValueError
\* from its first step: nothing is probed, the try block (temporary names,
\* playlist, executor, commit) is never entered and the disk is not touched
C18_EmptyInputRejected ==
    tc_input_files = <<>> =>
        /\ tc_pc \in {"check", "raised"}
        /\ tc_pc = "raised" => (tc_exc = "ValueError" /\ tc_failed = {"check"})
        /\ tc_pc = "check" => (tc_exc = "none" /\ tc_failed = {})
        /\ tc_input_codecs = <<>>
        /\ tc_playlist = <<>> /\ tc_runs = <<>>
        /\ tc_disk = Disk(tc_entry, "absent", "absent")

\* C18 witness: an invocation with no input, its output file existing, has
\* raised
C18_Witness ==
    /\ tc_input_files = <<>>
    /\ tc_pc = "raised"
    /\ tc_entry = "orig"

\* ------------------------------------------------------------------------
\* Properties of concurrent invocations (SpecConcurrent)
\* ------------------------------------------------------------------------

\* what an invocation that ran alone has on disk when control is in or past
\* the finally block with temp_output_file as the block found it
AloneAtFinally(disk, entry, failed) ==
    \/ failed \in {{}, {"check"}, {"probe"}, {"playlist"}}
          /\ disk = Disk(entry, "absent", "absent")
    \/ failed = {} /\ disk = Disk("new", "absent", "absent")
    \/ failed = {"encode"} /\ disk \in {Disk(entry, "absent", "absent"),
                                        Disk(entry, "partial", "absent")}
    \/ failed = {"backup"} /\ entry = "orig" /\ disk = Disk("orig", "new", "absent")
    \/ failed = {"replace"} /\ entry = "orig" /\ disk = Disk("orig", "new", "absent")
    \/ failed = {"replace", "restore"} /\ entry = "orig"
          /\ disk = Disk("absent", "new", "orig")
    \/ failed = {"unbackup"} /\ entry = "orig" /\ disk = Disk("new", "absent", "orig")
    \/ failed = {"rename"} /\ entry = "absent" /\ disk = Disk("absent", "new", "absent")

\* the states of an invocation that runs alone: where it is, what its three
\* file names hold, what its output held at entry and what has raised
Alone(pc, disk, entry, failed) ==
    \/ /\ pc \in {"check", "probe", "decide", "pipeline", "run"}
       /\ failed = {} /\ disk = Disk(entry, "absent", "absent")
    \/ pc = "commit" /\ failed = {} /\ disk = Disk(entry, "new", "absent")
    \/ /\ pc = "replace" /\ failed = {} /\ entry = "orig"
       /\ disk = Disk("absent", "new", "orig")
    \/ /\ pc = "restore" /\ failed = {"replace"} /\ entry = "orig"
       /\ disk = Disk("absent", "new", "orig")
    \/ /\ pc = "unbackup" /\ failed = {} /\ entry = "orig"
       /\ disk = Disk("new", "absent", "orig")
    \/ pc = "finally" /\ AloneAtFinally(disk, entry, failed)
    \/ /\ pc \in {"returned", "raised"}
       /\ pc = "returned" <=> failed = {}
       /\ disk.tmp = "absent"
       /\ \E tmp \in {"absent", "new", "partial"} :
             AloneAtFinally([disk EXCEPT !.tmp = tmp], entry, failed)

\* one invocation alone is in no other state
AloneIsSound == Alone(tc_pc, tc_disk, tc_entry, tc_failed)

\* what invocation p finds under a name: its own content, or "foreign"
Seen(p, name) ==
    IF cc_disk[name].by \in {0, p} THEN cc_disk[name].what ELSE "foreign"

\* the temporary names invocation p has generated: none while cc_tmp still
\* holds its initial value
TempNames(p) ==
    IF cc_tmp[p] = cc_out[p] THEN {} ELSE {cc_tmp[p], cc_tmp2[p]}

\* C16: two invocations with distinct output files never create, rename or
\* remove each other's temporary files, and at every step each invocation,
\* seen on its own output file and temporary names, is in a state of an
\* invocation that runs alone with the same operations raising
C16_ConcurrentIsolation ==
    \A p \in Invocations :
        /\ \A q \in Invocations \ {p} :
              /\ TempNames(p) \cap (TempNames(q) \cup {cc_out[q]}) = {}
              /\ \A t \in cc_touched : t.by = p => t.name \notin TempNames(q)
        /\ Alone(cc_pc[p],
                 Disk(Seen(p, cc_out[p]),
                      IF TempNames(p) = {} THEN "absent" ELSE Seen(p, cc_tmp[p]),
                      IF TempNames(p) = {} THEN "absent" ELSE Seen(p, cc_tmp2[p])),
                 cc_entry[p], cc_failed[p])

\* C16 witness: both invocations found an output file, replaced it with
\* their new content and returned, each having touched its three names
C16_Witness ==
    /\ \A p \in Invocations :
          /\ cc_pc[p] = "returned"
          /\ cc_entry[p] = "orig"
          /\ cc_disk[cc_out[p]] = Content(p, "new")
    /\ Cardinality(cc_touched) >= 6

\* ------------------------------------------------------------------------
\* Claims about the pooled batch
\* ------------------------------------------------------------------------

\* thread_pool.map has returned: no entry is waiting and no worker is busy
BatchDone ==
    /\ pool_todo = {}
    /\ \A w \in Workers : pool_worker[w].pc = "idle"

\* the completion messages printed for entry e, as positions of the output
MessagesOf(e) == {i \in 1..Len(pool_printed) : pool_printed[i].entry = e}

ShownDecreasing ==
    \A i, j \in 1..Len(pool_printed) :
        i < j => pool_printed[i].shown > pool_printed[j].shown

ShownReachesZero ==
    BatchDone /\ pool_n > 0 => pool_printed[Len(pool_printed)].shown = 0

\* C17: in the pooled assets batch, under every interleaving of the
\* workers, the remaining values displayed with successive completion
\* messages are strictly decreasing in print order, and the last one
\* displayed is zero.
C17_RemainingDecreasesToZero ==
    /\ ShownDecreasing
    /\ ShownReachesZero

AtMostOnce ==
    \A e \in 1..pool_n :
        /\ Cardinality(MessagesOf(e)) <= 1
        /\ pool_decs[e] <= 1

ExactlyOnce ==
    /\ Len(pool_printed) = pool_n
    /\ \A e \in 1..pool_n :
          /\ Cardinality(MessagesOf(e)) = 1
          /\ pool_decs[e] = 1
    /\ pool_counter = 0

\* C20: in the pooled assets batch of N entries, whatever each entry's
\* outcome (finished, skipped, failed) and however the workers interleave,
\* no entry ever has more than one completion message or more than one
\* decrement of the shared counter, and the batch always comes to its end,
\* where every entry has exactly one message, the counter was decremented
\* exactly once per entry, and the counter is 0.
C20_EveryEntryCountedOnce ==
    /\ [](AtMostOnce /\ (BatchDone => ExactlyOnce))
    /\ <>[](BatchDone /\ ExactlyOnce)

\* a full batch has ended with one entry failed after its retries were used
\* up and another entry finished or skipped
C20_Witness ==
    /\ BatchDone
    /\ pool_n = MaxEntries
    /\ \E i, j \in 1..Len(pool_printed) :
          /\ pool_printed[i].msg = "failed"
          /\ pool_printed[j].msg \in {"finished", "skipped"}

\* ------------------------------------------------------------------------
\* Claims about retrying (SpecEither)
\* ------------------------------------------------------------------------

\* every turn of tries but the last raised
OnlyLastMayPass(tries) ==
    \A k \in 1..(Len(tries) - 1) : tries[k] = "raised"

AllRaised(tries) == \A k \in 1..Len(tries) : tries[k] = "raised"

\* the running call of fetch_asset_for in worker w
FetchBounded(w) ==
    LET tries == pool_tries[w]
        self == pool_worker[w]
    IN  /\ Len(tries) <= 1 + RetryDefault
        /\ OnlyLastMayPass(tries)
        /\ self.pc = "try" => AllRaised(tries) /\ Len(tries) <= RetryDefault
        /\ self.msg \in {"finished", "skipped"} =>
              /\ tries # <<>>
              /\ tries[Len(tries)] = self.msg
        /\ self.msg = "failed" =>
              /\ AllRaised(tries)
              /\ Len(tries) = 1 + RetryDefault

\* the engine probes each input once and runs the executor at most once; a
\* failed probe ends the invocation at once, a failed encode leaves only the
\* cleanup
EngineSingleShot ==
    /\ Len(tc_input_codecs) <= Len(tc_input_files)
    /\ Len(tc_runs) <= 1
    /\ "probe" \in tc_failed =>
          /\ tc_pc = "raised"
          /\ tc_runs = <<>>
          /\ Len(tc_input_codecs) < Len(tc_input_files)
    /\ "encode" \in tc_failed => tc_pc \in {"finally", "raised"}

\* after a probe or an encode has failed, nothing is probed or run again
EngineNoSecondTry ==
    ("probe" \in tc_failed \/ "encode" \in tc_failed) =>
        UNCHANGED <<tc_input_codecs, tc_runs>>

Ended ==
    /\ BatchDone
    /\ tc_pc \in {"returned", "raised"}

\* C21: a call of fetch_asset_for makes at most 1 + retry turns of its loop
\* (4 with retry = 3); a turn that finished or skipped is the last one; the
\* message is failed only after 1 + retry turns that all raised; every batch
\* comes to its end.  transcode_movies probes each input once and runs the
\* executor at most once: after a failed probe or encode it does neither
\* again, and it always ends.
C21_BoundedRetry ==
    /\ []((\A w \in Workers : FetchBounded(w)) /\ EngineSingleShot)
    /\ [][EngineNoSecondTry]_vars
    /\ <>[]Ended

\* a call has used up its retries: four turns, all raised, message failed
C21_Witness ==
    \E w \in Workers :
        /\ pool_worker[w].msg = "failed"
        /\ pool_tries[w] = <<"raised", "raised", "raised", "raised">>

\* ------------------------------------------------------------------------
\* Claims about the assets archive (SpecMaker)
\* ------------------------------------------------------------------------

ReturnedDistinct ==
    \A i, j \in 1..Len(mk_returned) : i # j => mk_returned[i] # mk_returned[j]

MembersDistinct ==
    \A i, j \in 1..Len(mk_members) : i # j => mk_members[i] # mk_members[j]

\* a call inside the while loop is at a turn that ends the loop
LoopEnds == mk_pc = "loop" => NewName(mk_name, mk_idx) \notin mk_meta

\* C23: for any sequence of add calls on one maker, every call returns (the
\* while loop is never at a turn it cannot leave), each returned name
\* differs from every name returned before, and no archive member is
\* written twice under one name.
C23_AddUniquifies ==
    /\ LoopEnds
    /\ ReturnedDistinct
    /\ MembersDistinct

\* ------------------------------------------------------------------------
\* Claims about the transcode command (SpecCommand)
\* ------------------------------------------------------------------------

InputAbspaths == {Abspath(tc_input_files[i]) : i \in 1..Len(tc_input_files)}

RemovedPaths == {cmd_removed[k] : k \in 1..Len(cmd_removed)}

\* nothing is removed unless transcode_movies returned with no operation
\* having raised, and then only input files, with the new output in place
RemovedOnlyAfterSuccess ==
    cmd_removed # <<>> =>
        /\ tc_pc = "returned"
        /\ tc_failed = {}
        /\ tc_exc = "none"
        /\ tc_disk.out = "new"
        /\ ~cmd_simulate
        /\ ~cmd_no_delete_input
        /\ RemovedPaths \subseteq InputAbspaths

OutputKept ==
    /\ Abspath(OutputFile) \notin RemovedPaths
    /\ cmd_pc \in {"delete", "done"} /\ tc_pc = "returned" /\ ~cmd_simulate =>
          tc_disk.out # "absent"

SimulateDoesNothing ==
    cmd_simulate =>
        /\ tc_pc = "uncalled"
        /\ tc_input_codecs = <<>>
        /\ tc_runs = <<>>
        /\ tc_disk = Disk(tc_entry, "absent", "absent")
        /\ cmd_removed = <<>>

\* C22: the transcode command removes input files of an entry only after
\* transcode_movies has returned for it without any operation having raised
\* (a failed probe, encode or commit leaves every input file); the output
\* file is never removed, also when it is one of the inputs; with --simulate
\* transcode_movies is not called and nothing is removed.
C22_DeleteOnlyAfterSuccess ==
    /\ RemovedOnlyAfterSuccess
    /\ OutputKept
    /\ SimulateDoesNothing

\* the command is done for an entry whose inputs include the output file:
\* the other inputs were removed and the output file is in place
C22_Witness ==
    /\ cmd_pc = "done"
    /\ Abspath(OutputFile) \in InputAbspaths
    /\ Len(tc_input_files) >= 2
    /\ RemovedPaths = InputAbspaths \ {Abspath(OutputFile)}

====
